---- MODULE Spec2Model ----
(***************************************************************************)
(* Gamepad navigation for a block editor: the combination codec            *)
(* (gamepad.js), the shortcut registry (gamepad_shortcut_registry.js), the *)
(* sampling loop (gamepad_monitor.js) and the default shortcuts            *)
(* (navigation_controller.js).                                             *)
(*                                                                         *)
(* A JavaScript string is a sequence of words: a token or a name is one    *)
(* word, and "+" is the delimiter word, so that join and split are         *)
(* computed and the empty string is the empty sequence.                    *)
(***************************************************************************)
EXTENDS Integers, Sequences, FiniteSets, TLC

VARIABLES
    combA,      \* a GamepadCombination under construction (its combination_)
    combB,      \* a second GamepadCombination under construction
    parsed,     \* result of the last deserialize(combA.serialize())
    registry_,          \* GamepadShortcutRegistry.registry_
    combinationMap_,    \* GamepadShortcutRegistry.combinationMap_
    lastCall,   \* the last call made on the registry and what it returned
    monitor,    \* the fields of the GamepadMonitor
    frames,     \* number of requested animation frames not yet run
    now,        \* timestamp of the last animation frame
    navigatorGamepads,  \* navigator.getGamepads(): each controller's raw state
    lastTick,   \* what the last run of handleAnimationFrame_ did
    handledAt,  \* timestamp of the last tick that was handled, if any
    built,      \* result of the last currentCombination_(gamepads[0])
    editor      \* the editor as the default shortcuts see it

codecVars == <<combA, combB, parsed>>

registryVars == <<registry_, combinationMap_, lastCall>>

monitorVars == <<monitor, frames, now, navigatorGamepads, lastTick, handledAt, built>>

navVars == <<editor>>

vars == <<combA, combB, parsed, registry_, combinationMap_, lastCall,
          monitor, frames, now, navigatorGamepads, lastTick, handledAt, built, editor>>

-----------------------------------------------------------------------------
(* Bounds *)

\* Largest number of tokens added to one combination in the codec specification.
MaxTokens == 2
\* The codec specification draws tokens from the first NButtons buttons ...
NButtons == 2
\* ... and the first NAxes axis directions.
NAxes == 2
\* Largest number of (combination, name) pairs addCombinationMapping builds up.
MaxMappings == 2

-----------------------------------------------------------------------------
(* gamepad.js : tokens *)

\* The buttons, in the order of their slot index (slot = position - 1).
GamepadButtonType ==
    << "cross", "circle", "square", "triangle", "l1", "r1", "l2", "r2",
       "select", "start", "left_stick", "right_stick",
       "up", "down", "left", "right" >>

ALL_BUTTONS == { GamepadButtonType[i] : i \in 1..Len(GamepadButtonType) }

GAMEPAD_BUTTON_TO_INDEX ==
    [ b \in ALL_BUTTONS |->
        (CHOOSE i \in 1..Len(GamepadButtonType) : GamepadButtonType[i] = b) - 1 ]

GamepadAxisType ==
    << "left_horizontal_left", "left_horizontal_right",
       "left_vertical_up", "left_vertical_down",
       "right_horizontal_left", "right_horizontal_right",
       "right_vertical_up", "right_vertical_down" >>

ALL_AXES == { GamepadAxisType[i] : i \in 1..Len(GamepadAxisType) }

GAMEPAD_AXIS_TO_INDEX ==
    [ a \in ALL_AXES |->
        ((CHOOSE i \in 1..Len(GamepadAxisType) : GamepadAxisType[i] = a) - 1) \div 2 ]

\* Array.prototype.sort() without a comparator orders strings by code unit:
\* the 24 tokens in that order.
TokenOrder ==
    << "circle", "cross", "down", "l1", "l2", "left",
       "left_horizontal_left", "left_horizontal_right", "left_stick",
       "left_vertical_down", "left_vertical_up", "r1", "r2", "right",
       "right_horizontal_left", "right_horizontal_right", "right_stick",
       "right_vertical_down", "right_vertical_up", "select", "square",
       "start", "triangle", "up" >>

TokenRank ==
    [ t \in ALL_BUTTONS \cup ALL_AXES |->
        CHOOSE i \in 1..Len(TokenOrder) : TokenOrder[i] = t ]

-----------------------------------------------------------------------------
(* JavaScript built-ins used by the codec *)

Range(s) == { s[i] : i \in 1..Len(s) }

RemoveAt(s, k) == [ i \in 1..(Len(s) - 1) |-> IF i < k THEN s[i] ELSE s[i + 1] ]

\* Set.prototype.add: insertion order is kept, a member is not added again.
SetAdd(s, x) == IF x \in Range(s) THEN s ELSE Append(s, x)

\* new Set(array): the members in the order of their first occurrence.
RECURSIVE NewSet(_)
NewSet(arr) ==
    IF arr = << >> THEN << >>
    ELSE SetAdd(NewSet(SubSeq(arr, 1, Len(arr) - 1)), arr[Len(arr)])

\* Array.prototype.sort() on an array of tokens.
RECURSIVE ArraySort(_)
ArraySort(arr) ==
    IF arr = << >> THEN << >>
    ELSE LET m == CHOOSE i \in 1..Len(arr) :
                    \A j \in 1..Len(arr) :
                        \/ TokenRank[arr[i]] < TokenRank[arr[j]]
                        \/ (TokenRank[arr[i]] = TokenRank[arr[j]] /\ i <= j)
         IN  << arr[m] >> \o ArraySort(RemoveAt(arr, m))

\* Array.prototype.join('+') on an array of words.
RECURSIVE ArrayJoin(_)
ArrayJoin(arr) ==
    IF arr = << >> THEN << >>
    ELSE IF Len(arr) = 1 THEN << arr[1] >>
    ELSE << arr[1], "+" >> \o ArrayJoin(Tail(arr))

\* String.prototype.split('+'): the pieces between the delimiters; the empty
\* string splits into one empty piece.
RECURSIVE StringSplit(_)
StringSplit(s) ==
    IF \A i \in 1..Len(s) : s[i] # "+" THEN << s >>
    ELSE LET k == CHOOSE i \in 1..Len(s) :
                    s[i] = "+" /\ \A j \in 1..(i - 1) : s[j] # "+"
         IN  << SubSeq(s, 1, k - 1) >> \o StringSplit(SubSeq(s, k + 1, Len(s)))

-----------------------------------------------------------------------------
(* gamepad.js : GamepadCombination.  A combination is its combination_ set, *)
(* a sequence without repetition in insertion order.                       *)

EmptyCombination == << >>

serializeUnsorted(c) == ArrayJoin(c)

serialize(c) == ArrayJoin(ArraySort(c))

isEmpty(c) == Len(c) = 0

addButton(c, button) == SetAdd(c, button)

addAxis(c, axis) == SetAdd(c, axis)

\* A piece of a split serialization is a button or an axis.
IsButtonOrAxis(piece) ==
    Len(piece) = 1 /\ (piece[1] \in ALL_BUTTONS \/ piece[1] \in ALL_AXES)

deserialize(serialization) ==
    LET sequence == StringSplit(serialization)
    IN  IF \E i \in 1..Len(sequence) : ~IsButtonOrAxis(sequence[i])
        THEN [ threw |-> TRUE, combination_ |-> << >> ]
        ELSE [ threw |-> FALSE,
               combination_ |->
                   NewSet(ArraySort([ i \in 1..Len(sequence) |-> sequence[i][1] ])) ]

TokenSet(c) == Range(c)

\* No round trip made yet.
NotParsed == [ done |-> FALSE, threw |-> FALSE, combination_ |-> << >> ]

-----------------------------------------------------------------------------
(* gamepad_shortcut_registry.js : GamepadShortcutRegistry.                 *)
(* registry_ is a function from the registered names to their shortcut.    *)
(* combinationMap_ is the sequence of its entries [key, names] in          *)
(* insertion order; names is a Set<string>, in insertion order.            *)

MapHas(map, key) == \E i \in 1..Len(map) : map[i].key = key

MapIndex(map, key) == CHOOSE i \in 1..Len(map) : map[i].key = key

MapGet(map, key) == map[MapIndex(map, key)].names

MapSet(map, key, names) ==
    IF MapHas(map, key)
    THEN [ map EXCEPT ![MapIndex(map, key)].names = names ]
    ELSE Append(map, [ key |-> key, names |-> names ])

MapDelete(map, key) ==
    IF MapHas(map, key) THEN RemoveAt(map, MapIndex(map, key)) ELSE map

MapKeys(map) == [ i \in 1..Len(map) |-> map[i].key ]

SetDelete(s, x) ==
    IF x \in Range(s)
    THEN RemoveAt(s, CHOOSE i \in 1..Len(s) : s[i] = x)
    ELSE s

\* A name as a JavaScript string.
Str(name) == << name >>

\* [threw, registry_]
registerAlways(registry, shortcut, optAllowOverrides) ==
    [ threw |-> FALSE,
      registry_ |-> [ n \in (DOMAIN registry) \cup {shortcut.name} |->
                        IF n = shortcut.name THEN shortcut ELSE registry[n] ] ]

register(registry, shortcut, optAllowOverrides) ==
    IF shortcut.name \in DOMAIN registry /\ ~optAllowOverrides
    THEN [ threw |-> TRUE, registry_ |-> registry ]
    ELSE [ threw |-> FALSE,
           registry_ |-> [ n \in (DOMAIN registry) \cup {shortcut.name} |->
                             IF n = shortcut.name THEN shortcut ELSE registry[n] ] ]

\* addCombinationMapping throwing only when the entry holds another name.
addCombinationMappingOtherName(map, combination, shortcutName, optAllowCollision) ==
    LET serializedCombination == serialize(combination)
        names == IF MapHas(map, serializedCombination)
                 THEN MapGet(map, serializedCombination) ELSE << >>
    IN  IF ~optAllowCollision /\ \E n \in Range(names) : n # shortcutName
        THEN [ threw |-> TRUE, combinationMap_ |-> map ]
        ELSE [ threw |-> FALSE,
               combinationMap_ |->
                   MapSet(map, serializedCombination, SetAdd(names, shortcutName)) ]

\* [threw, combinationMap_]
addCombinationMapping(map, combination, shortcutName, optAllowCollision) ==
    LET serializedCombination == serialize(combination)
    IN  IF MapHas(map, serializedCombination) /\ ~optAllowCollision
        THEN [ threw |-> TRUE, combinationMap_ |-> map ]
        ELSE IF MapHas(map, serializedCombination) /\ optAllowCollision
        THEN [ threw |-> FALSE,
               combinationMap_ |->
                   MapSet(map, serializedCombination,
                          SetAdd(MapGet(map, serializedCombination), shortcutName)) ]
        ELSE [ threw |-> FALSE,
               combinationMap_ |->
                   MapSet(map, serializedCombination, << shortcutName >>) ]

\* [ret, combinationMap_]
removeCombinationMapping(map, combination, shortcutName) ==
    LET serializedCombination == serialize(combination)
    IN  IF ~MapHas(map, serializedCombination)
        THEN [ ret |-> FALSE, combinationMap_ |-> map ]
        ELSE
        LET shortcutNames == MapGet(map, serializedCombination)
        IN  IF Len(shortcutNames) = 0
            THEN [ ret |-> FALSE,
                   combinationMap_ |-> MapDelete(map, serializedCombination) ]
            ELSE IF ~(\E n \in Range(shortcutNames) : Str(n) = serializedCombination)
            THEN [ ret |-> FALSE, combinationMap_ |-> map ]
            ELSE LET remaining == SetDelete(shortcutNames, shortcutName)
                 IN  [ ret |-> TRUE,
                       combinationMap_ |->
                           IF Len(remaining) = 0
                           THEN MapDelete(map, serializedCombination)
                           ELSE MapSet(map, serializedCombination, remaining) ]

\* The loop of removeAllCombinationMappings over the keys still to visit.
\* [threw, combinationMap_]
RECURSIVE RemoveAllLoop(_, _, _)
RemoveAllLoop(map, keys, shortcutName) ==
    IF keys = << >> THEN [ threw |-> FALSE, combinationMap_ |-> map ]
    ELSE IF ~MapHas(map, Head(keys))
    THEN RemoveAllLoop(map, Tail(keys), shortcutName)
    ELSE LET d == deserialize(Head(keys))
         IN  IF d.threw THEN [ threw |-> TRUE, combinationMap_ |-> map ]
             ELSE RemoveAllLoop(
                      removeCombinationMapping(map, d.combination_,
                                               shortcutName).combinationMap_,
                      Tail(keys), shortcutName)

removeAllCombinationMappings(map, shortcutName) ==
    RemoveAllLoop(map, MapKeys(map), shortcutName)

\* [ret, threw, registry_, combinationMap_]
unregister(registry, map, shortcutName) ==
    IF shortcutName \notin DOMAIN registry
    THEN [ ret |-> FALSE, threw |-> FALSE,
           registry_ |-> registry, combinationMap_ |-> map ]
    ELSE LET r == removeAllCombinationMappings(map, shortcutName)
         IN  IF r.threw
             THEN [ ret |-> FALSE, threw |-> TRUE,
                    registry_ |-> registry, combinationMap_ |-> r.combinationMap_ ]
             ELSE [ ret |-> TRUE, threw |-> FALSE,
                    registry_ |-> [ n \in (DOMAIN registry) \ {shortcutName} |->
                                      registry[n] ],
                    combinationMap_ |-> r.combinationMap_ ]

\* The tokens named by a key of the map.
KeyTokenSet(key) ==
    UNION { Range(StringSplit(key)[i]) : i \in 1..Len(StringSplit(key)) }

RECURSIVE SeqConcat(_)
SeqConcat(ss) == IF ss = << >> THEN << >> ELSE Head(ss) \o SeqConcat(Tail(ss))

\* Array.from(this.combinationMap_.get(key)), or [] when the map has no such
\* key.
NamesOfKey(map, key) ==
    IF ~MapHas(map, key) THEN << >> ELSE MapGet(map, key)

getShortcutNamesBySubset(map, combination) ==
    NewSet(SeqConcat([ i \in 1..Len(map) |->
        IF KeyTokenSet(map[i].key) \subseteq TokenSet(combination)
        THEN map[i].names ELSE << >> ]))

getShortcutNamesReversed(map, combination) ==
    LET key == serialize(combination)
    IN  IF ~MapHas(map, key) THEN << >>
        ELSE LET names == MapGet(map, key)
             IN  [ i \in 1..Len(names) |-> names[Len(names) + 1 - i] ]

getShortcutNamesByCombination(map, combination) ==
    NamesOfKey(map, serialize(combination))

\* [threw, combinations]: every key is parsed, also that of an entry without
\* the name.
getCombinationsByShortcutName(map, shortcutName) ==
    IF \E i \in 1..Len(map) : deserialize(map[i].key).threw
    THEN [ threw |-> TRUE, combinations |-> << >> ]
    ELSE [ threw |-> FALSE,
           combinations |->
               SeqConcat([ i \in 1..Len(map) |->
                   IF shortcutName \in Range(map[i].names)
                   THEN << deserialize(map[i].key).combination_ >>
                   ELSE << >> ]) ]

\* A collection handed to the caller is [shared, value]: shared tells whether
\* it is the very object the registry keeps, so that what the caller does to
\* it is done to the registry's.  cloneDeep (lodash) builds a new Map whose
\* keys and values are clones in turn, functions being kept as they are.
cloneDeep(value) == [ shared |-> FALSE, value |-> value ]

getCombinationMapInternal(map) == [ shared |-> TRUE, value |-> map ]

getCombinationMap(map) == cloneDeep(map)

getRegistry(registry) == cloneDeep(registry)

-----------------------------------------------------------------------------
(* constants.js, accessibility_status.js and navigation_controller.js: the *)
(* editor as the closures of the default shortcuts see it.  The editor is  *)
(* a record:                                                                *)
(*   enabledWorkspaceIds_  the Set of AccessibilityStatus, insertion order  *)
(*   state                 the navigation state of each workspace           *)
(*   options               of each workspace: options.readOnly, and whether *)
(*                         getToolbox() returns a toolbox                   *)
(*   isVisible_            of the help popup                                *)
(*   effects               the calls made on Blockly, the cursors, the      *)
(*                         field, the toolbox and the Navigation since the  *)
(*                         last call of the controller or the registry      *)
(*                         began, in order: [call, ret]                     *)
(* The cursor and the gestures belong to Blockly: what getCurNode() and    *)
(* Gesture.inProgress() return during one onActivate call, and what the    *)
(* calls handed on to Blockly or to the Navigation return, are chosen by   *)
(* the environment, as the record                                          *)
(*   [pre, cb, delegate, node, gesture]                                    *)
(* (pre and cb are the results of closures of the caller).  A node is      *)
(* "none" (no current node, or one without a source block), "field" (a     *)
(* field of a block), "block" (a block alone at the top level), "locked"   *)
(* (a block that is neither deletable nor movable), "immovable"            *)
(* (deletable, not movable), "undeletable" (movable, not deletable),       *)
(* "stacked" (a block with a block connected below it), "child" (a block   *)
(* with a parent and nothing below it) or "inFlyout" (a block of a flyout  *)
(* workspace).                                                             *)

\* Constants.STATE.
STATES ==
    [ WORKSPACE |-> "workspace", FLYOUT |-> "flyout",
      TOOLBOX |-> "toolbox", HELP |-> "help" ]

\* Constants.SHORTCUT_NAMES has no TOGGLE_HELP: the key is undefined.
TOGGLE_HELP == "undefined"

NodeSample ==
    { "none", "field", "block", "locked", "immovable", "undeletable",
      "stacked", "child", "inFlyout" }

getSourceBlock(curNode) == curNode # "none"

isDeletableAlways(curNode) == TRUE

isDeletable(curNode) == curNode \notin { "locked", "undeletable" }

isMovable(curNode) == curNode \notin { "locked", "immovable" }

\* sourceBlock.workspace.isFlyout
isFlyout(curNode) == curNode = "inFlyout"

isGamepadAccessibilityEnabled(world, workspace) ==
    workspace \in Range(world.enabledWorkspaceIds_)

enableGamepadAccessibility(world, workspace) ==
    [ world EXCEPT !.enabledWorkspaceIds_ = SetAdd(@, workspace) ]

disableGamepadAccessibilityAll(world, workspace) ==
    [ world EXCEPT !.enabledWorkspaceIds_ = << >> ]

disableGamepadAccessibility(world, workspace) ==
    [ world EXCEPT !.enabledWorkspaceIds_ = SetDelete(@, workspace) ]

\* A call made on the editor, and what it returned where that matters.
Log(world, call, ret) ==
    [ world EXCEPT !.effects = Append(@, [ call |-> call, ret |-> ret ]) ]

\* Navigation.moveCursorOnBlockDelete: where the cursor is put before the
\* block is removed.
moveCursorOnBlockDelete(curNode) ==
    IF curNode = "stacked" THEN "next"
    ELSE IF curNode = "child" THEN "parent"
    ELSE "workspace"

\* The methods of the Navigation the closures call.
getState(world, workspace) == world.state[workspace]

setState(world, workspace, state) ==
    [ world EXCEPT !.state[workspace] = state ]

focusWorkspace(world, workspace) ==
    setState(world, workspace, STATES.WORKSPACE)

focusToolbox(world, workspace) ==
    setState(world, workspace, STATES.TOOLBOX)

focusFlyout(world, workspace) ==
    setState(world, workspace, STATES.FLYOUT)

insertFromFlyout(world, workspace) ==
    focusWorkspace(Log(world, "insertFromFlyout", ""), workspace)

NavigationEnableGamepadAccessibility(world, workspace) ==
    enableGamepadAccessibility(world, workspace)

NavigationDisableGamepadAccessibility(world, workspace) ==
    disableGamepadAccessibility(world, workspace)

\* HelpPopup.show() and hide().
show(world) ==
    IF world.isVisible_ THEN world ELSE [ world EXCEPT !.isVisible_ = TRUE ]

hideNothing(world) == world

hide(world) ==
    IF ~world.isVisible_ THEN world ELSE [ world EXCEPT !.isVisible_ = FALSE ]

Returns(ret, world) == [ ret |-> ret, world |-> world ]

fieldShortcutHandlerNotOffered(world, o) ==
    Returns("false", Log(world, "getCurNode", o.node))

\* [ret, world]: ret is "true", "false" or "undefined".
fieldShortcutHandler(world, o) ==
    LET curNode == Log(world, "getCurNode", o.node)
    IN  IF o.node = "none" THEN Returns("undefined", curNode)
        ELSE IF o.node = "field"
        THEN Returns(o.delegate, Log(curNode, "field.onShortcut", o.delegate))
        ELSE Returns("false", curNode)

ToolboxOnShortcutNever(world, workspace, o) == Returns("false", world)

\* toolbox && typeof toolbox.onShortcut == 'function' ?
\*     toolbox.onShortcut(shortcut) : false
\* [ret, world]
ToolboxOnShortcut(world, workspace, o) ==
    IF world.options[workspace].toolbox
    THEN Returns(o.delegate, Log(world, "toolbox.onShortcut", o.delegate))
    ELSE Returns("false", world)

\* The preconditionFn of the default shortcut of this name, with every default
\* shortcut gated by the accessibility flag or not.
DefaultPreconditionUngated(name, world, workspace, o) ==
    LET readOnly == world.options[workspace].readOnly
    IN  CASE name \in { "previous", "next", "in", "out", "exit",
                        "scroll_workspace_left", "scroll_workspace_right",
                        "scroll_workspace_up", "scroll_workspace_down",
                        "help" } ->
                 TRUE
          [] name \in { "insert", "mark", "toolbox", "workspace_left",
                        "workspace_right", "workspace_up", "workspace_down" } ->
                 ~readOnly
          [] name = "disconnect" ->
                 ~readOnly /\ getState(world, workspace) = STATES.WORKSPACE
          [] name = "gamepad_nav_copy" ->
                 IF ~readOnly /\ getSourceBlock(o.node)
                 THEN ~o.gesture /\ isDeletable(o.node) /\ isMovable(o.node)
                 ELSE FALSE
          [] name = "gamepad_nav_paste" ->
                 ~readOnly /\ ~o.gesture
          [] name = "gamepad_nav_cut" ->
                 IF ~readOnly /\ getSourceBlock(o.node)
                 THEN ~o.gesture /\ isDeletable(o.node) /\ isMovable(o.node)
                          /\ ~isFlyout(o.node)
                 ELSE FALSE
          [] name = "gamepad_nav_delete" ->
                 IF ~readOnly /\ getSourceBlock(o.node)
                 THEN isDeletable(o.node)
                 ELSE FALSE

\* The preconditionFn of the default shortcut of this name, with
\* workspace.options.readOnly not looked at.
DefaultPreconditionWritable(name, world, workspace, o) ==
    /\ isGamepadAccessibilityEnabled(world, workspace)
    /\ DefaultPreconditionUngated(name,
           [ world EXCEPT !.options[workspace].readOnly = FALSE ], workspace, o)

\* The preconditionFn of the default shortcut of this name, that of
\* disconnect never holding.
DefaultPreconditionNoDisconnect(name, world, workspace, o) ==
    /\ name # "disconnect"
    /\ isGamepadAccessibilityEnabled(world, workspace)
    /\ DefaultPreconditionUngated(name, world, workspace, o)

\* The preconditionFn of the default shortcut of this name.
DefaultPrecondition(name, world, workspace, o) ==
    LET enabled == isGamepadAccessibilityEnabled(world, workspace)
        readOnly == world.options[workspace].readOnly
    IN  CASE name \in { "previous", "next", "in", "out", "exit",
                        "scroll_workspace_left", "scroll_workspace_right",
                        "scroll_workspace_up", "scroll_workspace_down",
                        "help" } ->
                 enabled
          [] name \in { "insert", "mark", "toolbox", "workspace_left",
                        "workspace_right", "workspace_up", "workspace_down" } ->
                 enabled /\ ~readOnly
          [] name = "disconnect" ->
                 enabled /\ ~readOnly
                     /\ getState(world, workspace) = STATES.WORKSPACE
          [] name = "gamepad_nav_copy" ->
                 IF enabled /\ ~readOnly /\ getSourceBlock(o.node)
                 THEN ~o.gesture /\ isDeletable(o.node) /\ isMovable(o.node)
                 ELSE FALSE
          [] name = "gamepad_nav_paste" ->
                 enabled /\ ~readOnly /\ ~o.gesture
          [] name = "gamepad_nav_cut" ->
                 IF enabled /\ ~readOnly /\ getSourceBlock(o.node)
                 THEN ~o.gesture /\ isDeletable(o.node) /\ isMovable(o.node)
                          /\ ~isFlyout(o.node)
                 ELSE FALSE
          [] name = "gamepad_nav_delete" ->
                 IF enabled /\ ~readOnly /\ getSourceBlock(o.node)
                 THEN isDeletable(o.node)
                 ELSE FALSE

\* case Constants.STATE.WORKSPACE (and FLYOUT) of previous, next, in and out:
\* the field is offered the shortcut, and the cursor moves if it declines.
CursorCase(world, o, move) ==
    LET isHandled == fieldShortcutHandler(world, o)
    IN  IF isHandled.ret # "true"
        THEN Returns("true", Log(isHandled.world, move, ""))
        ELSE Returns(isHandled.ret, isHandled.world)

\* The callback of cut, the cursor left where it is.
CutCallbackInPlace(world, workspace, o) ==
    LET sourceBlock == Log(world, "getCurNode", o.node)
    IN  IF ~getSourceBlock(o.node) THEN Returns("throw", sourceBlock)
        ELSE Returns("true",
                 Log(Log(sourceBlock, "Blockly.copy", ""),
                     "Blockly.deleteBlock", ""))

\* The callback of cut.  With no current node getSourceBlock is called on
\* null.
CutCallback(world, workspace, o) ==
    LET sourceBlock == Log(world, "getCurNode", o.node)
    IN  IF ~getSourceBlock(o.node) THEN Returns("throw", sourceBlock)
        ELSE Returns("true",
                 Log(Log(Log(sourceBlock, "Blockly.copy", ""),
                         "moveCursorOnBlockDelete",
                         moveCursorOnBlockDelete(o.node)),
                     "Blockly.deleteBlock", ""))

DeleteCallbackRemoveFirst(world, workspace, o) ==
    LET sourceBlock == Log(world, "getCurNode", o.node)
        inProgress == Log(sourceBlock, "Gesture.inProgress",
                          IF o.gesture THEN "true" ELSE "false")
    IN  IF ~getSourceBlock(o.node) THEN Returns("throw", sourceBlock)
        ELSE IF o.gesture THEN Returns("false", inProgress)
        ELSE Returns("true",
                 Log(Log(inProgress, "Blockly.deleteBlock", ""),
                     "moveCursorOnBlockDelete",
                     moveCursorOnBlockDelete(o.node)))

\* The callback of delete.
DeleteCallback(world, workspace, o) ==
    LET sourceBlock == Log(world, "getCurNode", o.node)
        inProgress == Log(sourceBlock, "Gesture.inProgress",
                          IF o.gesture THEN "true" ELSE "false")
    IN  IF ~getSourceBlock(o.node) THEN Returns("throw", sourceBlock)
        ELSE IF o.gesture THEN Returns("false", inProgress)
        ELSE Returns("true",
                 Log(Log(inProgress, "moveCursorOnBlockDelete",
                         moveCursorOnBlockDelete(o.node)),
                     "Blockly.deleteBlock", ""))

\* The callback of insert, returning true whatever connectMarkerAndCursor
\* returned.
InsertCallbackSwallowing(world, workspace, o) ==
    IF getState(world, workspace) = STATES.WORKSPACE
    THEN Returns("true", Log(world, "connectMarkerAndCursor", o.delegate))
    ELSE Returns("false", world)

\* The callback of insert.
InsertCallback(world, workspace, o) ==
    IF getState(world, workspace) = STATES.WORKSPACE
    THEN Returns(o.delegate, Log(world, "connectMarkerAndCursor", o.delegate))
    ELSE Returns("false", world)

\* The callback of the default shortcut of this name.
\* [ret, world]: ret is "true", "false", "undefined" or "throw".
DefaultCallback(name, world, workspace, o) ==
    LET state == getState(world, workspace)
    IN  CASE name \in { "previous", "next" } ->
                 IF state = STATES.WORKSPACE
                 THEN CursorCase(world, o,
                          IF name = "previous" THEN "cursor.prev"
                          ELSE "cursor.next")
                 ELSE IF state = STATES.FLYOUT
                 THEN CursorCase(world, o,
                          IF name = "previous" THEN "flyoutCursor.prev"
                          ELSE "flyoutCursor.next")
                 ELSE IF state = STATES.TOOLBOX
                 THEN ToolboxOnShortcut(world, workspace, o)
                 ELSE Returns("false", world)
          [] name = "out" ->
                 IF state = STATES.WORKSPACE
                 THEN CursorCase(world, o, "cursor.out")
                 ELSE IF state = STATES.FLYOUT
                 THEN Returns("true", focusToolbox(world, workspace))
                 ELSE IF state = STATES.TOOLBOX
                 THEN ToolboxOnShortcut(world, workspace, o)
                 ELSE Returns("false", world)
          [] name = "in" ->
                 IF state = STATES.WORKSPACE
                 THEN CursorCase(world, o, "cursor.in")
                 ELSE IF state = STATES.TOOLBOX
                 THEN LET isHandled == ToolboxOnShortcut(world, workspace, o)
                      IN  IF isHandled.ret # "true"
                          THEN Returns("true",
                                   focusFlyout(isHandled.world, workspace))
                          ELSE Returns("true", isHandled.world)
                 ELSE Returns("false", world)
          [] name = "insert" -> InsertCallback(world, workspace, o)
          [] name = "mark" ->
                 IF state = STATES.WORKSPACE
                 THEN Returns("true", Log(world, "handleEnterForWS", ""))
                 ELSE IF state = STATES.FLYOUT
                 THEN Returns("true", insertFromFlyout(world, workspace))
                 ELSE Returns("false", world)
          [] name = "disconnect" ->
                 IF state = STATES.WORKSPACE
                 THEN Returns("true", Log(world, "disconnectBlocks", ""))
                 ELSE Returns("false", world)
          [] name = "toolbox" ->
                 IF state = STATES.WORKSPACE
                 THEN IF ~world.options[workspace].toolbox
                      THEN Returns("true", focusFlyout(world, workspace))
                      ELSE Returns("true", focusToolbox(world, workspace))
                 ELSE Returns("false", world)
          [] name = "exit" ->
                 IF state \in { STATES.FLYOUT, STATES.TOOLBOX }
                 THEN Returns("true", focusWorkspace(world, workspace))
                 ELSE IF state = STATES.HELP
                 THEN Returns("true",
                              focusWorkspace(hide(world), workspace))
                 ELSE Returns("false", world)
          [] name = "toggle_gamepad_nav" ->
                 IF isGamepadAccessibilityEnabled(world, workspace)
                 THEN Returns("true",
                          NavigationDisableGamepadAccessibility(world, workspace))
                 ELSE Returns("true",
                          NavigationEnableGamepadAccessibility(world, workspace))
          [] name \in { "workspace_left", "workspace_right", "workspace_up",
                        "workspace_down" } ->
                 Returns(o.delegate, Log(world, "moveWSCursor", o.delegate))
          [] name \in { "scroll_workspace_left", "scroll_workspace_right",
                        "scroll_workspace_up", "scroll_workspace_down" } ->
                 Returns(o.delegate, Log(world, "scrollWS", o.delegate))
          [] name = "gamepad_nav_paste" ->
                 Returns(o.delegate, Log(world, "paste", o.delegate))
          [] name = "gamepad_nav_copy" ->
                 IF getSourceBlock(o.node)
                 THEN Returns("undefined",
                          Log(Log(Log(world, "getCurNode", o.node),
                                  "Blockly.hideChaff", ""),
                              "Blockly.copy", ""))
                 ELSE Returns("throw", Log(world, "getCurNode", o.node))
          [] name = "gamepad_nav_cut" -> CutCallback(world, workspace, o)
          [] name = "gamepad_nav_delete" -> DeleteCallback(world, workspace, o)
          [] name = "help" ->
                 Returns("true",
                         setState(show(world), workspace, STATES.HELP))

\* A closure of a shortcut object is "absent", "default" (the closure the
\* controller registers under this name) or "oracle" (a closure of the
\* caller: what it returns is chosen by the environment at each call and it
\* leaves the editor alone).
RunPrecondition(shortcut, world, workspace, oracle) ==
    IF shortcut.preconditionFn = "default"
    THEN DefaultPrecondition(shortcut.name, world, workspace,
                             oracle[shortcut.name])
    ELSE oracle[shortcut.name].pre

\* [ret, world]: ret is "true", "throw", or "false" or "undefined" (falsy).
RunCallback(shortcut, world, workspace, oracle) ==
    IF shortcut.callback = "default"
    THEN DefaultCallback(shortcut.name, world, workspace, oracle[shortcut.name])
    ELSE [ ret |-> oracle[shortcut.name].cb, world |-> world ]

\* GamepadCombination.fromSingleAxis and fromSingleButton.
fromSingleAxis(gamepadAxis) == addAxis(EmptyCombination, gamepadAxis)

fromSingleButton(gamepadButton) == addButton(EmptyCombination, gamepadButton)

l1AndR1 == addButton(addButton(EmptyCombination, "l1"), "r1")

r2AndRightStickUp ==
    addAxis(addButton(EmptyCombination, "r2"), "right_vertical_up")

r2AndRightStickDown ==
    addAxis(addButton(EmptyCombination, "r2"), "right_vertical_down")

r2AndRightStickLeft ==
    addAxis(addButton(EmptyCombination, "r2"), "right_horizontal_left")

r2AndRightStickRight ==
    addAxis(addButton(EmptyCombination, "r2"), "right_horizontal_right")

\* The Map of the controls: its entries [key, value], in insertion order.
DEFAULT_CONTROLS ==
    << [ key |-> "previous", value |-> fromSingleAxis("left_vertical_up") ],
       [ key |-> "next", value |-> fromSingleAxis("left_vertical_down") ],
       [ key |-> "in", value |-> fromSingleAxis("left_horizontal_right") ],
       [ key |-> "out", value |-> fromSingleAxis("left_horizontal_left") ],
       [ key |-> "disconnect", value |-> fromSingleButton("circle") ],
       [ key |-> "exit", value |-> fromSingleButton("circle") ],
       [ key |-> "insert", value |-> fromSingleButton("triangle") ],
       [ key |-> "mark", value |-> fromSingleButton("cross") ],
       [ key |-> "toolbox", value |-> fromSingleButton("square") ],
       [ key |-> "toggle_gamepad_nav", value |-> l1AndR1 ],
       [ key |-> "workspace_down",
         value |-> fromSingleAxis("right_vertical_down") ],
       [ key |-> "workspace_left",
         value |-> fromSingleAxis("right_horizontal_left") ],
       [ key |-> "workspace_up", value |-> fromSingleAxis("right_vertical_up") ],
       [ key |-> "workspace_right",
         value |-> fromSingleAxis("right_horizontal_right") ],
       [ key |-> "scroll_workspace_up", value |-> r2AndRightStickUp ],
       [ key |-> "scroll_workspace_down", value |-> r2AndRightStickDown ],
       [ key |-> "scroll_workspace_left", value |-> r2AndRightStickLeft ],
       [ key |-> "scroll_workspace_right", value |-> r2AndRightStickRight ],
       [ key |-> "gamepad_nav_copy", value |-> fromSingleButton("up") ],
       [ key |-> "gamepad_nav_paste", value |-> fromSingleButton("down") ],
       [ key |-> "gamepad_nav_cut", value |-> fromSingleButton("right") ],
       [ key |-> "gamepad_nav_delete", value |-> fromSingleButton("left") ],
       [ key |-> TOGGLE_HELP, value |-> fromSingleButton("select") ] >>

\* controls.get(key) of a key of the controls.
ControlsGet(controls, key) ==
    controls[CHOOSE i \in 1..Len(controls) : controls[i].key = key].value

\* The shortcut object the controller builds for this name.
DefaultShortcut(name) ==
    [ name |-> name,
      preconditionFn |-> IF name = "toggle_gamepad_nav" THEN "absent"
                         ELSE "default",
      callback |-> "default" ]

\* The calls of registerDefaults, in order: the name registered, the key its
\* combination is looked up under, and the optional arguments of register
\* and addCombinationMapping.
DefaultRegistrations ==
    LET Plain(name) == [ name |-> name, key |-> name, optAllowOverrides |-> FALSE,
                         optAllowCollision |-> FALSE ]
    IN  << Plain("previous"), Plain("next"), Plain("in"), Plain("out"),
           Plain("disconnect"),
           [ name |-> "exit", key |-> "exit", optAllowOverrides |-> TRUE,
             optAllowCollision |-> TRUE ],
           Plain("insert"), Plain("mark"), Plain("toolbox"),
           Plain("toggle_gamepad_nav"),
           Plain("workspace_down"), Plain("workspace_left"),
           Plain("workspace_up"), Plain("workspace_right"),
           Plain("scroll_workspace_down"), Plain("scroll_workspace_up"),
           Plain("scroll_workspace_left"), Plain("scroll_workspace_right"),
           Plain("gamepad_nav_copy"), Plain("gamepad_nav_paste"),
           Plain("gamepad_nav_cut"), Plain("gamepad_nav_delete"),
           [ name |-> "help", key |-> TOGGLE_HELP, optAllowOverrides |-> FALSE,
             optAllowCollision |-> FALSE ] >>

\* One registerX method after another; an exception ends registerDefaults.
\* [threw, registry_, combinationMap_]
RECURSIVE RegisterDefaultsLoop(_, _, _, _)
RegisterDefaultsLoop(registrations, controls, registry, map) ==
    IF registrations = << >>
    THEN [ threw |-> FALSE, registry_ |-> registry, combinationMap_ |-> map ]
    ELSE
    LET x == Head(registrations)
        r == register(registry, DefaultShortcut(x.name), x.optAllowOverrides)
    IN  IF r.threw
        THEN [ threw |-> TRUE, registry_ |-> registry, combinationMap_ |-> map ]
        ELSE
        LET a == addCombinationMapping(map, ControlsGet(controls, x.key),
                                       x.name, x.optAllowCollision)
        IN  IF a.threw
            THEN [ threw |-> TRUE, registry_ |-> r.registry_,
                   combinationMap_ |-> map ]
            ELSE RegisterDefaultsLoop(Tail(registrations), controls,
                                      r.registry_, a.combinationMap_)

registerDefaults(controls, registry, map) ==
    RegisterDefaultsLoop(DefaultRegistrations, controls, registry, map)

\* The loop of onActivate over the names still to try.  calls lists what was
\* evaluated, in order: [kind, name, ret], kind "warn" (a name that is not
\* registered), "pre" (a precondition) or "cb" (a callback).
\* [result, world, calls]: result is "true", "false" or "throw".
RECURSIVE ActivateLoop(_, _, _, _, _, _)
ActivateLoop(registry, shortcutNames, world, workspace, oracle, calls) ==
    IF shortcutNames = << >>
    THEN [ result |-> "false", world |-> world, calls |-> calls ]
    ELSE
    LET shortcutName == Head(shortcutNames)
        rest == Tail(shortcutNames)
    IN  IF shortcutName \notin DOMAIN registry
        THEN ActivateLoop(registry, rest, world, workspace, oracle,
                 Append(calls, [ kind |-> "warn", name |-> shortcutName,
                                 ret |-> "false" ]))
        ELSE
        LET shortcut == registry[shortcutName]
            hasPre == shortcut.preconditionFn # "absent"
            pre == RunPrecondition(shortcut, world, workspace, oracle)
            calls1 == IF hasPre
                      THEN Append(calls, [ kind |-> "pre", name |-> shortcutName,
                                           ret |-> IF pre THEN "true" ELSE "false" ])
                      ELSE calls
        IN  IF hasPre /\ ~pre
            THEN ActivateLoop(registry, rest, world, workspace, oracle, calls1)
            ELSE IF shortcut.callback = "absent"
            THEN ActivateLoop(registry, rest, world, workspace, oracle, calls1)
            ELSE
            LET r == RunCallback(shortcut, world, workspace, oracle)
                calls2 == Append(calls1, [ kind |-> "cb", name |-> shortcutName,
                                           ret |-> r.ret ])
            IN  IF r.ret = "throw"
                THEN [ result |-> "throw", world |-> r.world, calls |-> calls2 ]
                ELSE IF r.ret = "true"
                THEN [ result |-> "true", world |-> r.world, calls |-> calls2 ]
                ELSE ActivateLoop(registry, rest, r.world, workspace, oracle, calls2)

onActivateNoGuard(registry, map, world, workspace, combination, oracle) ==
    ActivateLoop(registry, getShortcutNamesByCombination(map, combination),
                 world, workspace, oracle, << >>)

\* onActivate raising an error for a name that is not registered.
onActivateStrict(registry, map, world, workspace, combination, oracle) ==
    IF isEmpty(combination)
    THEN [ result |-> "false", world |-> world, calls |-> << >> ]
    ELSE IF \E k \in 1..Len(getShortcutNamesByCombination(map, combination)) :
                getShortcutNamesByCombination(map, combination)[k]
                    \notin DOMAIN registry
    THEN [ result |-> "throw", world |-> world, calls |-> << >> ]
    ELSE ActivateLoop(registry, getShortcutNamesByCombination(map, combination),
                      world, workspace, oracle, << >>)

onActivate(registry, map, world, workspace, combination, oracle) ==
    IF isEmpty(combination)
    THEN [ result |-> "false", world |-> world, calls |-> << >> ]
    ELSE ActivateLoop(registry, getShortcutNamesByCombination(map, combination),
                      world, workspace, oracle, << >>)

-----------------------------------------------------------------------------
(* gamepad_monitor.js : GamepadMonitor.  A timestamp counts half            *)
(* milliseconds (requestAnimationFrame passes a fractional number of        *)
(* milliseconds); an axis value counts tenths of the full deflection.       *)

\* Half milliseconds in one millisecond.
TicksPerMs == 2

\* Axis value of the full deflection (1.0).
AxisOne == 10

DEFAULT_DELAY_BETWEEN_COMBINATIONS_MILLISECONDS == 200

DEFAULT_AXIS_ACTIVATION_THRESHOLD == 4

MathFloor(timestamp) == timestamp \div TicksPerMs

\* A number is [finite, value]; Number.NEGATIVE_INFINITY is below every value.
NEGATIVE_INFINITY == [ finite |-> FALSE, value |-> 0 ]

Num(v) == [ finite |-> TRUE, value |-> v ]

\* An optional constructor argument is << >> (not given) or << v >>.
\* opt || default: undefined and 0 are falsy.
OrDefault(opt, default) ==
    IF opt = << >> THEN default
    ELSE IF opt[1] = 0 THEN default
    ELSE opt[1]

\* The fields of a new GamepadMonitor (registry_ is the shared registry).
GamepadMonitor(optDelayBetweenCombinations, optAxisActivationThreshold) ==
    [ connectedGamepadIndexes_ |-> << >>,
      delayBetweenCombinations_ |->
          OrDefault(optDelayBetweenCombinations,
                    DEFAULT_DELAY_BETWEEN_COMBINATIONS_MILLISECONDS),
      axisActivationThreshold_ |->
          OrDefault(optAxisActivationThreshold, DEFAULT_AXIS_ACTIVATION_THRESHOLD),
      timeSinceLastCommandHandled_ |-> NEGATIVE_INFINITY,
      workspaces_ |-> << >>,
      listening_ |-> FALSE,
      disposed_ |-> FALSE ]

\* init(): the listeners are added and the first animation frame is requested.
init(m) == [ monitor |-> [ m EXCEPT !.listening_ = TRUE ], requested |-> 1 ]

dispose(m) == [ m EXCEPT !.listening_ = FALSE, !.disposed_ = TRUE ]

handleGamepadConnected_(m, index) ==
    [ m EXCEPT !.connectedGamepadIndexes_ = SetAdd(@, index) ]

handleGamepadDisconnected_(m, index) ==
    [ m EXCEPT !.connectedGamepadIndexes_ = SetDelete(@, index) ]

addWorkspace(m, workspace) ==
    [ m EXCEPT !.workspaces_ = Append(@, workspace) ]

\* indexOf finds the first occurrence, splice removes that one.
removeWorkspace(m, workspace) ==
    IF workspace \in Range(m.workspaces_)
    THEN LET workspaceIdx == CHOOSE i \in 1..Len(m.workspaces_) :
                 /\ m.workspaces_[i] = workspace
                 /\ \A j \in 1..(i - 1) : m.workspaces_[j] # workspace
         IN  [ m EXCEPT !.workspaces_ = RemoveAt(@, workspaceIdx) ]
    ELSE m

getAxisValue_(gamepad, gamepadAxis) ==
    gamepad.axes[GAMEPAD_AXIS_TO_INDEX[gamepadAxis]]

\* The value of an array slot that was never assigned: compared with a
\* number it is neither below nor above it.
undefined == 100 * AxisOne

BelowInclusive(value, threshold) == value <= -threshold

\* value < -threshold, the test of the left and up directions.
Below(value, threshold) == value # undefined /\ value < -threshold

AboveMagnitude(value, threshold) == value > threshold \/ -value > threshold

\* value > threshold, the test of the right and down directions.
Above(value, threshold) == value # undefined /\ value > threshold

\* The loop over GAMEPAD_BUTTON_TO_INDEX.entries(), from its k-th entry on.
RECURSIVE PressedButtons(_, _, _)
PressedButtons(gamepad, k, combination) ==
    IF k > Len(GamepadButtonType) THEN combination
    ELSE LET gamepadButton == GamepadButtonType[k]
             index == GAMEPAD_BUTTON_TO_INDEX[gamepadButton]
         IN  PressedButtons(gamepad, k + 1,
                 IF gamepad.buttons[index].pressed
                 THEN addButton(combination, gamepadButton)
                 ELSE combination)

\* One if-statement of currentCombination_ for a direction of an axis.
AxisStep(m, gamepad, combination, gamepadAxis, negative) ==
    LET value == getAxisValue_(gamepad, gamepadAxis)
        active == IF negative THEN Below(value, m.axisActivationThreshold_)
                  ELSE Above(value, m.axisActivationThreshold_)
    IN  IF active THEN addAxis(combination, gamepadAxis) ELSE combination

currentCombination_(m, gamepad) ==
    LET c0 == PressedButtons(gamepad, 1, EmptyCombination)
        c1 == AxisStep(m, gamepad, c0, "left_horizontal_left", TRUE)
        c2 == AxisStep(m, gamepad, c1, "left_horizontal_right", FALSE)
        c3 == AxisStep(m, gamepad, c2, "left_vertical_up", TRUE)
        c4 == AxisStep(m, gamepad, c3, "left_vertical_down", FALSE)
        c5 == AxisStep(m, gamepad, c4, "right_horizontal_left", TRUE)
        c6 == AxisStep(m, gamepad, c5, "right_horizontal_right", FALSE)
        c7 == AxisStep(m, gamepad, c6, "right_vertical_up", TRUE)
    IN  AxisStep(m, gamepad, c7, "right_vertical_down", FALSE)

\* The (controller, session) pairs of a tick in the order of the two loops.
DispatchPairs(m, gamepads) ==
    LET nw == Len(m.workspaces_)
        n == Len(m.connectedGamepadIndexes_) * nw
    IN  [ k \in 1..n |->
            LET gamepadIndex == m.connectedGamepadIndexes_[((k - 1) \div nw) + 1]
            IN  [ gamepadIndex |-> gamepadIndex,
                  combination |-> currentCombination_(m, gamepads[gamepadIndex]),
                  workspace |-> m.workspaces_[((k - 1) % nw) + 1] ] ]

\* The two loops of handleAnimationFrame_ from the k-th pair on; oracles[k]
\* is what the closures return in the k-th onActivate call.  An exception of
\* onActivate leaves the loops.  calls lists the onActivate calls made:
\* [gamepadIndex, workspace, result, closures], closures counting the
\* preconditions and callbacks the call evaluated.  DispatchCall makes the call for a pair and
\* DispatchStep goes on with its result r.
RECURSIVE DispatchLoop(_, _, _, _, _, _, _, _)
RECURSIVE DispatchStep(_, _, _, _, _, _, _, _, _)
RECURSIVE DispatchCall(_, _, _, _, _, _, _, _, _)
DispatchStep(registry, map, pairs, oracles, k, isHandled, calls, pair, r) ==
    IF r.result = "throw"
    THEN [ threw |-> TRUE, isHandled |-> isHandled, world |-> r.world,
           calls |-> Append(calls, [ gamepadIndex |-> pair.gamepadIndex,
                                     workspace |-> pair.workspace,
                                     result |-> r.result,
                                     closures |-> Len(r.calls) ]) ]
    ELSE DispatchLoop(registry, map, r.world, pairs, oracles, k + 1,
                      (r.result = "true") \/ isHandled,
                      Append(calls, [ gamepadIndex |-> pair.gamepadIndex,
                                      workspace |-> pair.workspace,
                                      result |-> r.result,
                                      closures |-> Len(r.calls) ]))

DispatchCall(registry, map, world, pairs, oracles, k, isHandled, calls, pair) ==
    DispatchStep(registry, map, pairs, oracles, k, isHandled, calls, pair,
                 onActivate(registry, map, world, pair.workspace,
                            pair.combination, oracles[k]))

DispatchLoop(registry, map, world, pairs, oracles, k, isHandled, calls) ==
    IF k > Len(pairs)
    THEN [ threw |-> FALSE, isHandled |-> isHandled, world |-> world,
           calls |-> calls ]
    ELSE DispatchCall(registry, map, world, pairs, oracles, k, isHandled, calls,
                      pairs[k])

ElapsedNeverTooShort(m, timestamp) == FALSE

\* elapsedTime < DEFAULT_DELAY_BETWEEN_COMBINATIONS_MILLISECONDS.
ElapsedBelow(m, timestamp) ==
    /\ m.timeSinceLastCommandHandled_.finite
    /\ MathFloor(timestamp) - m.timeSinceLastCommandHandled_.value
           < DEFAULT_DELAY_BETWEEN_COMBINATIONS_MILLISECONDS

\* elapsedTime <= DEFAULT_DELAY_BETWEEN_COMBINATIONS_MILLISECONDS, with
\* elapsedTime = Math.floor(timestamp) - timeSinceLastCommandHandled_.
ElapsedTooShort(m, timestamp) ==
    /\ m.timeSinceLastCommandHandled_.finite
    /\ MathFloor(timestamp) - m.timeSinceLastCommandHandled_.value
           <= DEFAULT_DELAY_BETWEEN_COMBINATIONS_MILLISECONDS

\* The end of handleAnimationFrame_, r being the result of its loops.
AfterDispatch(m, timestamp, r) ==
    IF r.threw
    THEN [ monitor |-> m, world |-> r.world, requested |-> 0,
           path |-> "threw", calls |-> r.calls, isHandled |-> r.isHandled ]
    ELSE [ monitor |->
               IF r.isHandled
               THEN [ m EXCEPT !.timeSinceLastCommandHandled_ =
                                   Num(MathFloor(timestamp)) ]
               ELSE m,
           world |-> r.world, requested |-> 1, path |-> "dispatched",
           calls |-> r.calls, isHandled |-> r.isHandled ]

\* handleAnimationFrame_ with the disposed_ test after the test for connected
\* controllers instead of at the top.
handleAnimationFrameIdleFirst_(m, timestamp, gamepads, registry, map, world, oracles) ==
    IF Len(m.connectedGamepadIndexes_) = 0
    THEN [ monitor |-> m, world |-> world, requested |-> 1, path |-> "idle",
           calls |-> << >>, isHandled |-> FALSE ]
    ELSE IF m.disposed_
    THEN [ monitor |-> m, world |-> world, requested |-> 0, path |-> "disposed",
           calls |-> << >>, isHandled |-> FALSE ]
    ELSE IF ElapsedTooShort(m, timestamp)
    THEN [ monitor |-> m, world |-> world, requested |-> 1, path |-> "debounced",
           calls |-> << >>, isHandled |-> FALSE ]
    ELSE AfterDispatch(m, timestamp,
             DispatchLoop(registry, map, world, DispatchPairs(m, gamepads),
                          oracles, 1, FALSE, << >>))

\* [monitor, world, requested, path, calls, isHandled]: requested counts the
\* requestAnimationFrame calls made, path names the return taken.
handleAnimationFrame_(m, timestamp, gamepads, registry, map, world, oracles) ==
    IF m.disposed_
    THEN [ monitor |-> m, world |-> world, requested |-> 0, path |-> "disposed",
           calls |-> << >>, isHandled |-> FALSE ]
    ELSE IF Len(m.connectedGamepadIndexes_) = 0
    THEN [ monitor |-> m, world |-> world, requested |-> 1, path |-> "idle",
           calls |-> << >>, isHandled |-> FALSE ]
    ELSE IF ElapsedTooShort(m, timestamp)
    THEN [ monitor |-> m, world |-> world, requested |-> 1, path |-> "debounced",
           calls |-> << >>, isHandled |-> FALSE ]
    ELSE AfterDispatch(m, timestamp,
             DispatchLoop(registry, map, world, DispatchPairs(m, gamepads),
                          oracles, 1, FALSE, << >>))

-----------------------------------------------------------------------------
(* The state each specification starts from and leaves alone where it     *)
(* does not use it.                                                        *)

NoWorld == "none"

\* No call yet.  A call is recorded as [op, combination, shortcutName, result,
\* calls]: the method, what it returned ("throw" for an exception), for
\* onActivate and addCombinationMapping the combination given, for
\* addCombinationMapping the name given, for onActivate what it evaluated.
NoCall ==
    [ op |-> "none", combination |-> << >>, shortcutName |-> "", result |-> "",
      calls |-> << >> ]

GamepadIndexes == { 0, 1 }

\* A Gamepad object with the given buttons pressed and the given axes.
RawGamepad(pressed, axes) ==
    [ buttons |-> [ index \in 0..(Len(GamepadButtonType) - 1) |->
                      [ pressed |-> GamepadButtonType[index + 1] \in pressed ] ],
      axes |-> axes ]

AxisSlots == 0..((Len(GamepadAxisType) \div 2) - 1)

Neutral == RawGamepad({}, [ i \in AxisSlots |-> 0 ])

NotBuilt == [ done |-> FALSE, combination |-> EmptyCombination ]

\* No tick yet.  A tick is recorded as [number, timestamp, path, pairCount,
\* callCount, handledCount, isHandled, previous, calls, requested, disposed]:
\* the (controller, session) pairs at the tick, the onActivate calls made
\* and how many returned true, the timestamp of the handled tick before it,
\* if any, the calls [gamepadIndex, workspace, result, closures] in order (kept until
\* the next call of a method of the monitor), the animation frames the tick
\* requested, and whether dispose() had been called when the tick started.
NoTick ==
    [ number |-> 0, timestamp |-> 0, path |-> "none", pairCount |-> 0,
      callCount |-> 0, handledCount |-> 0, isHandled |-> FALSE,
      previous |-> << >>, calls |-> << >>, requested |-> 0,
      disposed |-> FALSE ]

CodecIdle ==
    /\ combA = EmptyCombination
    /\ combB = EmptyCombination
    /\ parsed = NotParsed

RegistryIdle ==
    /\ registry_ = << >>
    /\ combinationMap_ = << >>
    /\ lastCall = NoCall

MonitorIdle ==
    /\ monitor = GamepadMonitor(<< >>, << >>)
    /\ frames = 0
    /\ now = 0
    /\ navigatorGamepads = [ i \in GamepadIndexes |-> Neutral ]
    /\ lastTick = NoTick
    /\ handledAt = << >>
    /\ built = NotBuilt

NavIdle == editor = NoWorld

-----------------------------------------------------------------------------
(* The registry specification: the public methods of the registry called   *)
(* in any order with arguments drawn from small sets.                      *)

\* The shortcut objects given to register.  A name is any string: one of them
\* reads like the serialization of a combination.
ShortcutSample ==
    { [ name |-> "circle", preconditionFn |-> "oracle", callback |-> "oracle" ],
      [ name |-> "exit", preconditionFn |-> "oracle", callback |-> "oracle" ],
      [ name |-> "exit", preconditionFn |-> "absent", callback |-> "oracle" ] }

RegistryNames == { s.name : s \in ShortcutSample }

\* The combinations given to the registry.
RegistryCombinations ==
    { EmptyCombination,
      addButton(EmptyCombination, "circle"),
      addButton(addButton(EmptyCombination, "r1"), "l1"),
      addButton(addButton(addButton(EmptyCombination, "triangle"), "l1"), "r1") }

\* The maps given to setCombinationMap.
CombinationMapSample ==
    { << >>,
      << [ key |-> << >>, names |-> << "exit" >> ] >>,
      << [ key |-> << "r1", "+", "l1" >>, names |-> << "circle" >> ] >>,
      << [ key |-> << "circle" >>, names |-> << "circle", "exit" >> ] >> }

\* What the closures of the candidates return in one onActivate call.
\* A precondition that fails leaves the callback uncalled, and a shortcut
\* without a precondition has none to fail.
Oracles(registry, names) ==
    { o \in [ names -> [ pre : BOOLEAN, cb : { "true", "false", "throw" } ] ] :
        \A n \in names :
            ~o[n].pre => (o[n].cb = "false" /\ registry[n].preconditionFn # "absent") }

Candidates(registry, map, combination) ==
    { n \in Range(getShortcutNamesByCombination(map, combination)) :
        n \in DOMAIN registry }

MappingCount(map) ==
    Len(SeqConcat([ i \in 1..Len(map) |-> map[i].names ]))

RegistryInit ==
    /\ RegistryIdle
    /\ CodecIdle
    /\ MonitorIdle
    /\ NavIdle

Register(shortcut, optAllowOverrides) ==
    LET r == register(registry_, shortcut, optAllowOverrides)
    IN  /\ registry_' = r.registry_
        /\ lastCall' = [ NoCall EXCEPT !.op = "register",
                           !.result = IF r.threw THEN "throw" ELSE "ok" ]
        /\ UNCHANGED <<combinationMap_, codecVars, monitorVars, navVars>>

Unregister(shortcutName) ==
    LET r == unregister(registry_, combinationMap_, shortcutName)
    IN  /\ registry_' = r.registry_
        /\ combinationMap_' = r.combinationMap_
        /\ lastCall' = [ NoCall EXCEPT !.op = "unregister",
                           !.result = IF r.threw THEN "throw"
                                      ELSE IF r.ret THEN "true" ELSE "false" ]
        /\ UNCHANGED <<codecVars, monitorVars, navVars>>

AddCombinationMapping(combination, shortcutName, optAllowCollision) ==
    LET r == addCombinationMapping(combinationMap_, combination, shortcutName,
                                   optAllowCollision)
    IN  /\ MappingCount(combinationMap_) < MaxMappings
        /\ combinationMap_' = r.combinationMap_
        /\ lastCall' = [ NoCall EXCEPT !.op = "addCombinationMapping",
                           !.combination = combination,
                           !.shortcutName = shortcutName,
                           !.result = IF r.threw THEN "throw" ELSE "ok" ]
        /\ UNCHANGED <<registry_, codecVars, monitorVars, navVars>>

RemoveCombinationMapping(combination, shortcutName) ==
    LET r == removeCombinationMapping(combinationMap_, combination, shortcutName)
    IN  /\ combinationMap_' = r.combinationMap_
        /\ lastCall' = [ NoCall EXCEPT !.op = "removeCombinationMapping",
                           !.result = IF r.ret THEN "true" ELSE "false" ]
        /\ UNCHANGED <<registry_, codecVars, monitorVars, navVars>>

RemoveAllCombinationMappings(shortcutName) ==
    LET r == removeAllCombinationMappings(combinationMap_, shortcutName)
    IN  /\ combinationMap_' = r.combinationMap_
        /\ lastCall' = [ NoCall EXCEPT !.op = "removeAllCombinationMappings",
                           !.result = IF r.threw THEN "throw" ELSE "ok" ]
        /\ UNCHANGED <<registry_, codecVars, monitorVars, navVars>>

SetCombinationMap(combinationMap) ==
    /\ combinationMap_' = combinationMap
    /\ lastCall' = [ NoCall EXCEPT !.op = "setCombinationMap", !.result = "ok" ]
    /\ UNCHANGED <<registry_, codecVars, monitorVars, navVars>>

\* getCombinationMap(), and what the caller then does to the Map it was given:
\* kind is "set" (returned.set(key, new Set([name]))), "delete"
\* (returned.delete(key)), "add" (returned.get(key).add(name)) or "remove"
\* (returned.get(key).delete(name)).
GetCombinationMap(kind, combination, shortcutName) ==
    LET returned == getCombinationMap(combinationMap_)
        key == serialize(combination)
        value == returned.value
        names == NamesOfKey(value, key)
        mutated ==
            CASE kind = "set" -> MapSet(value, key, << shortcutName >>)
              [] kind = "delete" -> MapDelete(value, key)
              [] kind = "add" ->
                     IF MapHas(value, key)
                     THEN MapSet(value, key, SetAdd(names, shortcutName))
                     ELSE value
              [] kind = "remove" ->
                     IF MapHas(value, key)
                     THEN MapSet(value, key, SetDelete(names, shortcutName))
                     ELSE value
    IN  /\ combinationMap_' = IF returned.shared THEN mutated ELSE combinationMap_
        /\ lastCall' = [ NoCall EXCEPT !.op = "getCombinationMap",
                           !.result = IF mutated = value THEN "kept"
                                      ELSE "mutated" ]
        /\ UNCHANGED <<registry_, codecVars, monitorVars, navVars>>

\* getRegistry(), and what the caller then does to the Map it was given:
\* kind is "set" (returned.set(shortcut.name, shortcut)), "delete"
\* (returned.delete(shortcut.name)) or "field"
\* (returned.get(shortcut.name).callback = undefined).
GetRegistry(kind, shortcut) ==
    LET returned == getRegistry(registry_)
        value == returned.value
        name == shortcut.name
        mutated ==
            CASE kind = "set" ->
                     [ n \in (DOMAIN value) \cup {name} |->
                         IF n = name THEN shortcut ELSE value[n] ]
              [] kind = "delete" ->
                     [ n \in (DOMAIN value) \ {name} |-> value[n] ]
              [] kind = "field" ->
                     IF name \in DOMAIN value
                     THEN [ value EXCEPT ![name].callback = "absent" ]
                     ELSE value
    IN  /\ registry_' = IF returned.shared THEN mutated ELSE registry_
        /\ lastCall' = [ NoCall EXCEPT !.op = "getRegistry",
                           !.result = IF mutated = value THEN "kept"
                                      ELSE "mutated" ]
        /\ UNCHANGED <<combinationMap_, codecVars, monitorVars, navVars>>

OnActivate(combination) ==
    \E oracle \in Oracles(registry_,
                          Candidates(registry_, combinationMap_, combination)) :
        LET r == onActivate(registry_, combinationMap_, NoWorld, "workspace",
                            combination, oracle)
        IN  /\ lastCall' = [ NoCall EXCEPT !.op = "onActivate",
                               !.combination = combination,
                               !.result = r.result, !.calls = r.calls ]
            /\ UNCHANGED <<registry_, combinationMap_, codecVars, monitorVars, navVars>>

RegistryNext ==
    \/ \E s \in ShortcutSample, o \in BOOLEAN : Register(s, o)
    \/ \E n \in RegistryNames : Unregister(n)
    \/ \E c \in RegistryCombinations, n \in RegistryNames, o \in BOOLEAN :
           AddCombinationMapping(c, n, o)
    \/ \E c \in RegistryCombinations, n \in RegistryNames :
           RemoveCombinationMapping(c, n)
    \/ \E n \in RegistryNames : RemoveAllCombinationMappings(n)
    \/ \E m \in CombinationMapSample : SetCombinationMap(m)
    \/ \E c \in RegistryCombinations : OnActivate(c)

SpecRegistry == RegistryInit /\ [][RegistryNext]_vars

\* The getters specification: shortcuts are registered, the combination map
\* is set, and the caller asks for either collection and changes what it is
\* given.
GettersNext ==
    \/ \E s \in ShortcutSample, o \in BOOLEAN : Register(s, o)
    \/ \E m \in CombinationMapSample : SetCombinationMap(m)
    \/ \E kind \in { "set", "delete", "add", "remove" },
          c \in RegistryCombinations, n \in RegistryNames :
           GetCombinationMap(kind, c, n)
    \/ \E kind \in { "set", "delete", "field" }, s \in ShortcutSample :
           GetRegistry(kind, s)

SpecGetters == RegistryInit /\ [][GettersNext]_vars

-----------------------------------------------------------------------------
(* The codec specification: two combinations are built with addButton and  *)
(* addAxis, and the first is serialized and parsed back.                   *)

CodecButtons == { GamepadButtonType[i] : i \in 1..NButtons }

CodecInit ==
    /\ CodecIdle
    /\ RegistryIdle
    /\ MonitorIdle
    /\ NavIdle

CodecAddButtonA ==
    \E b \in CodecButtons :
        /\ Len(combA) < MaxTokens
        /\ combA' = addButton(combA, b)
        /\ parsed' = NotParsed
        /\ UNCHANGED <<combB, registryVars, monitorVars, navVars>>

CodecAddAxisA ==
    \E a \in { GamepadAxisType[i] : i \in 1..NAxes } :
        /\ Len(combA) < MaxTokens
        /\ combA' = addAxis(combA, a)
        /\ parsed' = NotParsed
        /\ UNCHANGED <<combB, registryVars, monitorVars, navVars>>

CodecAddButtonB ==
    \E b \in CodecButtons :
        /\ Len(combB) < MaxTokens
        /\ combB' = addButton(combB, b)
        /\ UNCHANGED <<combA, parsed, registryVars, monitorVars, navVars>>

CodecAddAxisB ==
    \E a \in { GamepadAxisType[i] : i \in 1..NAxes } :
        /\ Len(combB) < MaxTokens
        /\ combB' = addAxis(combB, a)
        /\ UNCHANGED <<combA, parsed, registryVars, monitorVars, navVars>>

CodecRoundTrip ==
    /\ ~parsed.done
    /\ parsed' = [ done |-> TRUE ] @@ deserialize(serialize(combA))
    /\ UNCHANGED <<combA, combB, registryVars, monitorVars, navVars>>

CodecNext ==
    \/ CodecAddButtonA
    \/ CodecAddAxisA
    \/ CodecAddButtonB
    \/ CodecAddAxisB
    \/ CodecRoundTrip

SpecCodec == CodecInit /\ [][CodecNext]_vars

-----------------------------------------------------------------------------
(* The sampling specification: currentCombination_ applied to a raw         *)
(* controller state.  One axis takes every value from -1.0 to 1.0, the      *)
(* others rest or are fully deflected.                                      *)

SampleAxes ==
    { axes \in [ AxisSlots -> (0 - AxisOne)..AxisOne ] :
        \E i \in AxisSlots :
            \A j \in AxisSlots \ { i } : axes[j] \in { 0 - AxisOne, 0, AxisOne } }

SampleGamepads ==
    { RawGamepad(pressed, axes) : pressed \in SUBSET CodecButtons, axes \in SampleAxes }

SampleInit ==
    \* The thresholds given to the constructor: none, 0.0, 0.2 and 0.7.
    /\ \E optAxisActivationThreshold \in { << >>, << 0 >>, << 2 >>, << 7 >> } :
           monitor = GamepadMonitor(<< >>, optAxisActivationThreshold)
    /\ \E g \in SampleGamepads :
           navigatorGamepads = [ i \in GamepadIndexes |-> IF i = 0 THEN g ELSE Neutral ]
    /\ built = NotBuilt
    /\ frames = 0
    /\ now = 0
    /\ lastTick = NoTick
    /\ handledAt = << >>
    /\ CodecIdle
    /\ RegistryIdle
    /\ NavIdle

SampleCurrentCombination ==
    /\ ~built.done
    /\ built' = [ done |-> TRUE,
                  combination |-> currentCombination_(monitor, navigatorGamepads[0]) ]
    /\ UNCHANGED <<monitor, frames, now, navigatorGamepads, lastTick, handledAt,
                   codecVars, registryVars, navVars>>

SampleNext == SampleCurrentCombination

SpecSample == SampleInit /\ [][SampleNext]_vars

-----------------------------------------------------------------------------
(* The monitor specification: the loop started by init() with controllers   *)
(* connecting, sessions added and removed, and animation frames delivered   *)
(* at timestamps the browser chooses.  The registry holds one shortcut      *)
(* bound to the circle button; what its callback returns is chosen at each  *)
(* call.  The run ends with the last of MaxFrames frames, or when no frame  *)
(* is requested any more.                                                   *)

Workspaces == { "w1", "w2" }

\* Largest number of entries of workspaces_.
MaxTracked == 2

\* Largest number of animation frames delivered.
MaxFrames == 2

\* Time between two animation frames, in half milliseconds: 199.5 ms,
\* 200.5 ms and 201 ms.
FrameGaps ==
    { DEFAULT_DELAY_BETWEEN_COMBINATIONS_MILLISECONDS * TicksPerMs - 1,
      DEFAULT_DELAY_BETWEEN_COMBINATIONS_MILLISECONDS * TicksPerMs + 1,
      (DEFAULT_DELAY_BETWEEN_COMBINATIONS_MILLISECONDS + 1) * TicksPerMs }

CirclePad == RawGamepad({ "circle" }, [ i \in AxisSlots |-> 0 ])

\* What the controllers report: on the first the circle button is held, the
\* second is at rest.
PadOf == [ i \in GamepadIndexes |-> IF i = 0 THEN CirclePad ELSE Neutral ]

MonitorShortcut ==
    [ name |-> "exit", preconditionFn |-> "absent", callback |-> "oracle" ]

MonitorRegistry == register(<< >>, MonitorShortcut, FALSE).registry_

MonitorCombinationMap ==
    addCombinationMapping(<< >>, addButton(EmptyCombination, "circle"),
                          MonitorShortcut.name, FALSE).combinationMap_

MonitorInit ==
    \* The delay given to the constructor: 500 ms.
    /\ \E optDelayBetweenCombinations \in { << 500 >> } :
           monitor = GamepadMonitor(optDelayBetweenCombinations, << >>)
    /\ frames = 0
    /\ now = 0
    /\ navigatorGamepads = [ i \in GamepadIndexes |-> PadOf[i] ]
    /\ lastTick = NoTick
    /\ handledAt = << >>
    /\ built = NotBuilt
    /\ registry_ = MonitorRegistry
    /\ combinationMap_ = MonitorCombinationMap
    /\ lastCall = NoCall
    /\ CodecIdle
    /\ NavIdle

MonitorRest == <<built, codecVars, registryVars, navVars>>

\* The loop can still run a tick: it was not started yet or a frame is
\* requested, and the frames of the run are not used up.
Live ==
    /\ lastTick.number < MaxFrames
    /\ frames > 0 \/ ~monitor.listening_

\* init(), also after dispose().
MonitorStart ==
    /\ ~monitor.listening_
    /\ monitor' = init(monitor).monitor
    /\ frames' = frames + init(monitor).requested
    /\ lastTick' = [ lastTick EXCEPT !.calls = << >> ]
    /\ UNCHANGED <<now, navigatorGamepads, handledAt, MonitorRest>>

MonitorDispose ==
    /\ ~monitor.disposed_
    /\ Live
    /\ monitor' = dispose(monitor)
    /\ lastTick' = [ lastTick EXCEPT !.calls = << >> ]
    /\ UNCHANGED <<frames, now, navigatorGamepads, handledAt, MonitorRest>>

GamepadConnected(index) ==
    /\ monitor.listening_
    /\ Live
    /\ monitor' = handleGamepadConnected_(monitor, index)
    /\ lastTick' = [ lastTick EXCEPT !.calls = << >> ]
    /\ UNCHANGED <<frames, now, navigatorGamepads, handledAt, MonitorRest>>

GamepadDisconnected(index) ==
    /\ monitor.listening_
    /\ Live
    /\ monitor' = handleGamepadDisconnected_(monitor, index)
    /\ lastTick' = [ lastTick EXCEPT !.calls = << >> ]
    /\ UNCHANGED <<frames, now, navigatorGamepads, handledAt, MonitorRest>>

AddWorkspace(workspace) ==
    /\ ~monitor.disposed_
    /\ Live
    /\ Len(monitor.workspaces_) < MaxTracked
    /\ monitor' = addWorkspace(monitor, workspace)
    /\ lastTick' = [ lastTick EXCEPT !.calls = << >> ]
    /\ UNCHANGED <<frames, now, navigatorGamepads, handledAt, MonitorRest>>

RemoveWorkspace(workspace) ==
    /\ ~monitor.disposed_
    /\ Live
    /\ monitor' = removeWorkspace(monitor, workspace)
    /\ lastTick' = [ lastTick EXCEPT !.calls = << >> ]
    /\ UNCHANGED <<frames, now, navigatorGamepads, handledAt, MonitorRest>>

\* What the closures return in each onActivate call of the tick at this
\* timestamp.  The monitor sees of the calls only whether one returned true
\* and whether one threw: the first h calls return true (h up to 2), then
\* the next call throws or none does, and the others return false.
TickOracle(n, h, t) ==
    [ k \in 1..n |->
        [ exit |-> [ pre |-> TRUE,
                     cb |-> IF k <= h THEN "true"
                            ELSE IF k = t THEN "throw" ELSE "false" ] ] ]

TickOracles(m, timestamp) ==
    LET n == IF m.disposed_ \/ ElapsedTooShort(m, timestamp) THEN 0
             ELSE Len(m.connectedGamepadIndexes_) * Len(m.workspaces_)
    IN  UNION { { TickOracle(n, h, t) : t \in { 0, h + 1 } } :
                  h \in { i \in { 0, 1, 2 } : i <= n } }

\* The browser runs a requested animation frame callback.  A closure run by
\* the tick may call dispose() (disposing): the tick reads disposed_ at its
\* top only, so that the call takes effect on the ticks after it.
AnimationFrame(gap) ==
    /\ frames > 0
    /\ lastTick.number < MaxFrames
    /\ \E oracles \in TickOracles(monitor, now + gap) :
           \E r \in { handleAnimationFrame_(monitor, now + gap, navigatorGamepads,
                                            registry_, combinationMap_,
                                            editor, oracles) } :
           \E disposing \in
                  IF \E k \in 1..Len(r.calls) : r.calls[k].closures > 0
                  THEN BOOLEAN ELSE { FALSE } :
               /\ monitor' = IF disposing THEN dispose(r.monitor) ELSE r.monitor
               /\ editor' = r.world
               /\ frames' = (frames - 1) + r.requested
               /\ lastTick' = [ number |-> lastTick.number + 1,
                                timestamp |-> now + gap,
                                path |-> r.path,
                                pairCount |->
                                    Len(monitor.connectedGamepadIndexes_)
                                        * Len(monitor.workspaces_),
                                callCount |-> Len(r.calls),
                                handledCount |->
                                    Cardinality({ k \in DOMAIN r.calls :
                                                    r.calls[k].result = "true" }),
                                isHandled |-> r.isHandled /\ r.path = "dispatched",
                                previous |-> handledAt,
                                calls |-> r.calls,
                                requested |-> r.requested,
                                disposed |-> monitor.disposed_ ]
               /\ handledAt' = IF r.isHandled /\ r.path = "dispatched"
                               THEN << now + gap >> ELSE handledAt
    /\ now' = now + gap
    /\ UNCHANGED <<navigatorGamepads, built, codecVars, registryVars>>

MonitorNext ==
    \/ MonitorStart
    \/ MonitorDispose
    \/ \E index \in GamepadIndexes : GamepadConnected(index)
    \/ \E index \in GamepadIndexes : GamepadDisconnected(index)
    \/ \E workspace \in Workspaces : AddWorkspace(workspace)
    \/ \E workspace \in Workspaces : RemoveWorkspace(workspace)
    \/ \E gap \in FrameGaps : AnimationFrame(gap)

SpecMonitor == MonitorInit /\ [][MonitorNext]_vars

-----------------------------------------------------------------------------
(* The navigation specification: a controller with the default controls    *)
(* and two workspaces.  The controller is initialised, gamepad            *)
(* accessibility is turned on and off, and the registry is handed the      *)
(* combinations of the controls for either workspace, as the monitor hands *)
(* it what the controllers hold.                                           *)

\* The options of the two workspaces, [readOnly, toolbox]:
\* workspace.options.readOnly, and whether the workspace has a toolbox.
OptionSample ==
    { [ w \in Workspaces |->
          IF w = "w1" THEN [ readOnly |-> FALSE, toolbox |-> TRUE ]
          ELSE [ readOnly |-> TRUE, toolbox |-> TRUE ] ],
      [ w \in Workspaces |->
          IF w = "w1" THEN [ readOnly |-> FALSE, toolbox |-> FALSE ]
          ELSE [ readOnly |-> FALSE, toolbox |-> TRUE ] ] }

\* The combinations handed to onActivate: those of the controls, the empty
\* one and one that no shortcut is mapped to.
NavCombinations ==
    { DEFAULT_CONTROLS[i].value : i \in 1..Len(DEFAULT_CONTROLS) }
        \cup { EmptyCombination, fromSingleButton("start") }

\* What the environment answers during one onActivate call that tries the
\* shortcuts of these names: delegate to the shortcuts that hand a call on
\* to a field, the toolbox or the Navigation and return its result, node to
\* those that act on the block the cursor is on or offer the shortcut to
\* the field it is on, gesture to those that ask whether a gesture is in
\* progress.  While accessibility is disabled for the workspace the default
\* closures ask the environment nothing.
NavOracles(names, enabled) ==
    LET delegate == { "previous", "next", "in", "out", "insert",
                      "gamepad_nav_paste", "workspace_left", "workspace_right",
                      "workspace_up", "workspace_down", "scroll_workspace_left",
                      "scroll_workspace_right", "scroll_workspace_up",
                      "scroll_workspace_down" }
        block == { "gamepad_nav_copy", "gamepad_nav_cut", "gamepad_nav_delete" }
        field == { "previous", "next", "in", "out" }
        gesture == block \cup { "gamepad_nav_paste" }
    IN  { [ n \in names |-> [ pre |-> TRUE, cb |-> "false", delegate |-> d,
                              node |-> c, gesture |-> g ] ] :
            d \in IF enabled /\ names \cap delegate # {}
                  THEN { "true", "false" } ELSE { "false" },
            c \in IF enabled /\ names \cap block # {} THEN NodeSample
                  ELSE IF enabled /\ names \cap field # {}
                  THEN { "none", "field", "block" }
                  ELSE { "none" },
            g \in IF enabled /\ names \cap gesture # {} THEN BOOLEAN
                  ELSE { FALSE } }

NavInit ==
    /\ \E options \in OptionSample :
           editor = [ enabledWorkspaceIds_ |-> << >>,
                      state |-> [ w \in Workspaces |-> STATES.WORKSPACE ],
                      options |-> options,
                      isVisible_ |-> FALSE,
                      effects |-> << >> ]
    /\ RegistryIdle
    /\ CodecIdle
    /\ MonitorIdle

\* What the last call of the specification was: for onActivate the workspace,
\* the combination, whether accessibility was enabled for the workspace and
\* the navigation state it was in when it was called, the node the cursor
\* was on and whether a gesture was in progress during the call, its result
\* and what it evaluated.  reenabled marks an
\* enable call that follows an onActivate call which skipped a shortcut of the
\* same workspace while accessibility was disabled, and the onActivate call
\* for that workspace that follows such an enable call.
NavEvent(op, workspace, enabled) ==
    [ op |-> op, workspace |-> workspace, combination |-> << >>,
      enabled |-> enabled, state |-> "", node |-> "none", gesture |-> FALSE,
      reenabled |-> FALSE, result |-> "", calls |-> << >> ]

\* The last call was an onActivate call that skipped a shortcut of this
\* workspace while its accessibility was disabled.
SkippedFor(workspace) ==
    /\ lastCall.op = "onActivate"
    /\ lastCall.workspace = workspace
    /\ ~lastCall.enabled
    /\ \E i \in 1..Len(lastCall.calls) :
           lastCall.calls[i].kind = "pre" /\ lastCall.calls[i].ret = "false"

\* NavigationController.init(): the exception of a shortcut that is already
\* registered ends it before the monitor is started.
ControllerInit ==
    \E r \in { registerDefaults(DEFAULT_CONTROLS, registry_, combinationMap_) } :
        /\ registry_' = r.registry_
        /\ combinationMap_' = r.combinationMap_
        /\ monitor' = IF r.threw THEN monitor ELSE init(monitor).monitor
        /\ frames' = IF r.threw THEN frames
                      ELSE frames + init(monitor).requested
        /\ lastCall' = [ NavEvent("init", "", FALSE) EXCEPT
                           !.result = IF r.threw THEN "throw" ELSE "ok" ]
        /\ UNCHANGED <<editor, codecVars, now, navigatorGamepads, lastTick,
                       handledAt, built>>

\* NavigationController.enable(workspace).
Enable(workspace) ==
    /\ editor' = NavigationEnableGamepadAccessibility(
                      [ editor EXCEPT !.effects = << >> ], workspace)
    /\ lastCall' = [ NavEvent("enable", workspace,
                              isGamepadAccessibilityEnabled(editor, workspace))
                       EXCEPT !.reenabled = SkippedFor(workspace) ]
    /\ UNCHANGED <<registry_, combinationMap_, codecVars, monitorVars>>

\* NavigationController.disable(workspace).
Disable(workspace) ==
    /\ editor' = NavigationDisableGamepadAccessibility(
                      [ editor EXCEPT !.effects = << >> ], workspace)
    /\ lastCall' = NavEvent("disable", workspace,
                            isGamepadAccessibilityEnabled(editor, workspace))
    /\ UNCHANGED <<registry_, combinationMap_, codecVars, monitorVars>>

\* gamepadShortcutRegistry.onActivate(workspace, combination).  Between two
\* onActivate calls the specification takes a call of the controller: the
\* reachable states are the same as without this, since for every workspace
\* either enable or disable leaves the editor as it is, and they are far
\* fewer to visit from.
NavActivate(workspace, combination) ==
    /\ lastCall.op # "onActivate"
    /\ \E oracle \in NavOracles(Candidates(registry_, combinationMap_, combination),
                            isGamepadAccessibilityEnabled(editor, workspace)) :
        \E r \in { onActivate(registry_, combinationMap_,
                              [ editor EXCEPT !.effects = << >> ], workspace,
                              combination, oracle) } :
            /\ editor' = r.world
            /\ lastCall' =
                   [ op |-> "onActivate", workspace |-> workspace,
                     combination |-> combination,
                     enabled |-> isGamepadAccessibilityEnabled(editor, workspace),
                     state |-> getState(editor, workspace),
                     node |-> IF DOMAIN oracle = { } THEN "none"
                              ELSE oracle[CHOOSE n \in DOMAIN oracle : TRUE].node,
                     gesture |-> /\ DOMAIN oracle # { }
                                 /\ oracle[CHOOSE n \in DOMAIN oracle : TRUE].gesture,
                     reenabled |-> /\ lastCall.op = "enable"
                                   /\ lastCall.workspace = workspace
                                   /\ lastCall.reenabled,
                     result |-> r.result, calls |-> r.calls ]
            /\ UNCHANGED <<registry_, combinationMap_, codecVars, monitorVars>>

NavNext ==
    \/ ControllerInit
    \/ \E workspace \in Workspaces : Enable(workspace)
    \/ \E workspace \in Workspaces : Disable(workspace)
    \/ \E workspace \in Workspaces, combination \in NavCombinations :
           NavActivate(workspace, combination)

SpecNav == NavInit /\ [][NavNext]_vars

-----------------------------------------------------------------------------
(* The stub specification: a combination is turned into a Gamepad object   *)
(* with asGamepad(), navigator.getGamepads() returns it, and the monitor    *)
(* reads the combination back from it, as the tests drive the monitor.     *)

\* Largest number of tokens of a combination handed to asGamepad.
MaxHeld == 3

\* The tokens the combinations are made of: the buttons of the first and the
\* last slot, the two directions of the first axis and of the last.
HeldTokens ==
    { "cross", "right", "left_horizontal_left", "left_horizontal_right",
      "right_vertical_up", "right_vertical_down" }

\* The combinations of up to MaxHeld of these tokens, in every order of
\* insertion.
HeldCombinations ==
    { c \in UNION { [ 1..n -> HeldTokens ] : n \in 0..MaxHeld } :
        \A i, j \in 1..Len(c) : i # j => c[i] # c[j] }

\* One if-statement of asGamepad for a direction of an axis.
AxisAssign(c, axes, gamepadAxis, value) ==
    IF gamepadAxis \in TokenSet(c)
    THEN [ axes EXCEPT ![GAMEPAD_AXIS_TO_INDEX[gamepadAxis]] = value ]
    ELSE axes

\* asGamepad(): every button slot is filled, an axis slot only by the
\* if-statement of a direction the combination holds, the later of two
\* assignments to a slot staying.
asGamepadBothSigns(c) ==
    [ buttons |-> [ index \in 0..(Len(GamepadButtonType) - 1) |->
                      [ pressed |-> GamepadButtonType[index + 1] \in TokenSet(c) ] ],
      axes |-> [ i \in AxisSlots |->
                   IF GamepadAxisType[2 * i + 1] \in TokenSet(c) THEN AxisOne
                   ELSE IF GamepadAxisType[2 * i + 2] \in TokenSet(c) THEN AxisOne
                   ELSE undefined ] ]

asGamepad(c) ==
    LET a0 == [ i \in AxisSlots |-> undefined ]
        a1 == AxisAssign(c, a0, "left_horizontal_left", 0 - AxisOne)
        a2 == AxisAssign(c, a1, "left_horizontal_right", AxisOne)
        a3 == AxisAssign(c, a2, "left_vertical_up", 0 - AxisOne)
        a4 == AxisAssign(c, a3, "left_vertical_down", AxisOne)
        a5 == AxisAssign(c, a4, "right_horizontal_left", 0 - AxisOne)
        a6 == AxisAssign(c, a5, "right_horizontal_right", AxisOne)
        a7 == AxisAssign(c, a6, "right_vertical_up", 0 - AxisOne)
        a8 == AxisAssign(c, a7, "right_vertical_down", AxisOne)
    IN  [ buttons |-> [ index \in 0..(Len(GamepadButtonType) - 1) |->
                          [ pressed |-> GamepadButtonType[index + 1] \in TokenSet(c) ] ],
          axes |-> a8 ]

StubInit ==
    /\ combA \in HeldCombinations
    /\ combB = EmptyCombination
    /\ parsed = NotParsed
    /\ monitor = GamepadMonitor(<< >>, << >>)
    /\ navigatorGamepads = [ i \in GamepadIndexes |-> Neutral ]
    /\ built = NotBuilt
    /\ frames = 0
    /\ now = 0
    /\ lastTick = NoTick
    /\ handledAt = << >>
    /\ RegistryIdle
    /\ NavIdle

\* createNavigatorGetGamepadsStub(combination): navigator.getGamepads()
\* returns [combination.asGamepad()].
CreateNavigatorGetGamepadsStub ==
    /\ navigatorGamepads = [ i \in GamepadIndexes |-> Neutral ]
    /\ ~built.done
    /\ navigatorGamepads' = [ navigatorGamepads EXCEPT ![0] = asGamepad(combA) ]
    /\ UNCHANGED <<monitor, frames, now, lastTick, handledAt, built,
                   codecVars, registryVars, navVars>>

\* The monitor reads the combination of the first controller.
StubCurrentCombination ==
    /\ ~built.done
    /\ built' = [ done |-> TRUE,
                  combination |-> currentCombination_(monitor, navigatorGamepads[0]) ]
    /\ UNCHANGED <<monitor, frames, now, navigatorGamepads, lastTick, handledAt,
                   codecVars, registryVars, navVars>>

StubNext ==
    \/ CreateNavigatorGetGamepadsStub
    \/ StubCurrentCombination

SpecStub == StubInit /\ [][StubNext]_vars

\* The life cycle of the controller: init, dispose and init again.

\* Object.values(Constants.SHORTCUT_NAMES), in the order of the object.
SHORTCUT_NAMES ==
    << "previous", "next", "in", "out", "insert", "mark", "disconnect",
       "toolbox", "exit", "toggle_gamepad_nav", "gamepad_nav_copy",
       "gamepad_nav_cut", "gamepad_nav_paste", "gamepad_nav_delete",
       "workspace_up", "workspace_down", "workspace_left", "workspace_right",
       "scroll_workspace_up", "scroll_workspace_down", "scroll_workspace_left",
       "scroll_workspace_right", "help" >>

\* The loop of NavigationController.dispose() over the shortcut names; an
\* exception of unregister ends it.  [threw, registry_, combinationMap_]
RECURSIVE UnregisterLoop(_, _, _)
UnregisterLoop(names, registry, map) ==
    IF names = << >>
    THEN [ threw |-> FALSE, registry_ |-> registry, combinationMap_ |-> map ]
    ELSE LET u == unregister(registry, map, Head(names))
         IN  IF u.threw
             THEN [ threw |-> TRUE, registry_ |-> u.registry_,
                    combinationMap_ |-> u.combinationMap_ ]
             ELSE UnregisterLoop(Tail(names), u.registry_, u.combinationMap_)

\* NavigationController.dispose(): every shortcut name is unregistered, then
\* the monitor is disposed.
ControllerDispose ==
    \E r \in { UnregisterLoop(SHORTCUT_NAMES, registry_, combinationMap_) } :
        /\ registry_' = r.registry_
        /\ combinationMap_' = r.combinationMap_
        /\ monitor' = IF r.threw THEN monitor ELSE dispose(monitor)
        /\ lastCall' = [ NavEvent("dispose", "", FALSE) EXCEPT
                           !.result = IF r.threw THEN "throw" ELSE "ok" ]
        /\ UNCHANGED <<editor, codecVars, frames, now, navigatorGamepads,
                       lastTick, handledAt, built>>

LifeNext ==
    \/ ControllerInit
    \/ ControllerDispose
    \/ \E workspace \in Workspaces : Enable(workspace)
    \/ \E workspace \in Workspaces : Disable(workspace)

SpecLife == NavInit /\ [][LifeNext]_vars

-----------------------------------------------------------------------------
(* Claims *)

\* C6: for every combination c built with the codec, the empty one included,
\* deserialize(c.serialize()) succeeds and yields a combination with the same
\* serialization as c.
C6_RoundTrip ==
    parsed.done =>
        /\ ~parsed.threw
        /\ serialize(parsed.combination_) = serialize(combA)

\* C7: serialize() depends only on the token set: two combinations built by
\* any sequence of addButton/addAxis calls (any order, repeated tokens) have
\* equal serializations iff their token sets are equal.
C7_SerializeCanonical ==
    (serialize(combA) = serialize(combB)) <=> (TokenSet(combA) = TokenSet(combB))

\* C7 witness: the same two tokens were added in opposite orders.
C7_Witness ==
    /\ Len(combA) = 2
    /\ Len(combB) = 2
    /\ combA # combB
    /\ TokenSet(combA) = TokenSet(combB)
    /\ serialize(combA) = serialize(combB)

\* The name set of the entry of the map whose key is the serialization of c.
BoundNames(c) ==
    IF \E e \in 1..Len(combinationMap_) : combinationMap_[e].key = serialize(c)
    THEN combinationMap_[CHOOSE e \in 1..Len(combinationMap_) :
                             combinationMap_[e].key = serialize(c)].names
    ELSE << >>

Pos(names, n) == CHOOSE k \in 1..Len(names) : names[k] = n

Invoked(n) ==
    \E i \in 1..Len(lastCall.calls) :
        lastCall.calls[i].kind = "cb" /\ lastCall.calls[i].name = n

Tried(n) ==
    \E i \in 1..Len(lastCall.calls) : lastCall.calls[i].name = n

\* C1: onActivate(session, c) invokes a shortcut's callback only if its name is
\* mapped to a combination whose token set is exactly that of c; a shortcut
\* bound only to a strict subset or superset of c is never invoked.
C1_ExactMatch ==
    lastCall.op = "onActivate" =>
        \A n \in RegistryNames :
            Invoked(n) =>
                \E e \in 1..Len(combinationMap_) :
                    /\ n \in Range(combinationMap_[e].names)
                    /\ KeyTokenSet(combinationMap_[e].key)
                           = TokenSet(lastCall.combination)

\* C1 witness: {l1,r1,triangle} was activated and the callback of the shortcut
\* bound to it ran, while exit, registered and bound only to {l1,r1}, did not.
C1_Witness ==
    /\ lastCall.op = "onActivate"
    /\ TokenSet(lastCall.combination) = { "l1", "r1", "triangle" }
    /\ Invoked("circle")
    /\ "exit" \in DOMAIN registry_
    /\ \E e \in 1..Len(combinationMap_) :
           /\ combinationMap_[e].key = << "l1", "+", "r1" >>
           /\ "exit" \in Range(combinationMap_[e].names)
    /\ ~Tried("exit")

\* C2: within one onActivate call the names bound to the (non-empty) activated
\* combination are tried in the order of its name set; the first callback that
\* returns true ends the call with result true and nothing of a later
\* candidate is evaluated; if no callback returns true (and none throws) the
\* result is false.
C2_OrderedShortCircuit ==
    (lastCall.op = "onActivate" /\ ~isEmpty(lastCall.combination)) =>
        LET names == BoundNames(lastCall.combination)
            calls == lastCall.calls
            n == Len(calls)
        IN  /\ \A i \in 1..n : calls[i].name \in Range(names)
            /\ \A i \in 1..n, j \in 1..n :
                   i < j => Pos(names, calls[i].name) <= Pos(names, calls[j].name)
            /\ \A i \in 1..n :
                   (calls[i].kind = "cb" /\ calls[i].ret = "true") =>
                       (i = n /\ lastCall.result = "true")
            /\ lastCall.result = "true" =>
                   (n > 0 /\ calls[n].kind = "cb" /\ calls[n].ret = "true")
            /\ (\A i \in 1..n :
                    calls[i].kind = "cb" => calls[i].ret = "false")
                   => lastCall.result = "false"
            /\ \A k \in 1..Len(names) :
                   (lastCall.result = "false"
                        \/ (n > 0 /\ k <= Pos(names, calls[n].name)))
                       => Tried(names[k])
            /\ \A i \in 1..n :
                   (calls[i].kind = "pre" /\ calls[i].ret = "false") =>
                       ~Invoked(calls[i].name)

\* C2 witness: two registered shortcuts are bound to the activated combination,
\* the callback of the first returned true and nothing of the second ran.
C2_Witness ==
    /\ lastCall.op = "onActivate"
    /\ lastCall.result = "true"
    /\ LET names == BoundNames(lastCall.combination)
       IN  /\ Len(names) = 2
           /\ Range(names) \subseteq DOMAIN registry_
           /\ Invoked(names[1])
           /\ ~Tried(names[2])

\* C5: onActivate with an empty combination returns false and evaluates no
\* precondition and no callback, whatever the registry and the map hold.
C5_EmptyCombination ==
    (lastCall.op = "onActivate" /\ isEmpty(lastCall.combination)) =>
        (lastCall.result = "false" /\ lastCall.calls = << >>)

\* C5 witness: the empty combination was activated while the map binds the
\* empty serialization to a registered shortcut.
C5_Witness ==
    /\ lastCall.op = "onActivate"
    /\ isEmpty(lastCall.combination)
    /\ \E e \in 1..Len(combinationMap_) :
           /\ combinationMap_[e].key = << >>
           /\ \E k \in 1..Len(combinationMap_[e].names) :
                  combinationMap_[e].names[k] \in DOMAIN registry_

\* C10: register with a registered name and allowOverride false fails and
\* leaves the registry and the map unchanged; otherwise the registry afterwards
\* maps the name to the given shortcut and every other entry is unchanged.
C10_Register ==
    [][ \A s \in ShortcutSample, o \in BOOLEAN :
          Register(s, o) =>
              IF s.name \in DOMAIN registry_ /\ ~o
              THEN /\ lastCall'.result = "throw"
                   /\ registry_' = registry_
                   /\ combinationMap_' = combinationMap_
              ELSE /\ lastCall'.result = "ok"
                   /\ DOMAIN registry_' = (DOMAIN registry_) \cup {s.name}
                   /\ registry_'[s.name] = s
                   /\ \A n \in (DOMAIN registry_) \ {s.name} :
                          registry_'[n] = registry_[n]
                   /\ combinationMap_' = combinationMap_ ]_vars

\* C10 witness: a register call failed on a registered name while the map
\* holds a mapping.
C10_Witness ==
    /\ lastCall.op = "register"
    /\ lastCall.result = "throw"
    /\ Len(combinationMap_) > 0

\* The direction tokens of the axis in slot i.
NegativeToken(i) == GamepadAxisType[2 * i + 1]

PositiveToken(i) == GamepadAxisType[2 * i + 2]

\* C8: in the combination the monitor builds from a raw controller state, an
\* axis whose value is exactly the activation threshold, in either sign, has
\* neither of its direction tokens, and an axis whose value is one unit
\* beyond the threshold has the token of that sign and not the other.
C8_AxisThresholdBoundary ==
    built.done =>
        \A i \in AxisSlots :
            LET value == navigatorGamepads[0].axes[i]
                threshold == monitor.axisActivationThreshold_
                tokens == TokenSet(built.combination)
            IN  /\ (value = threshold \/ value = 0 - threshold) =>
                       (NegativeToken(i) \notin tokens /\ PositiveToken(i) \notin tokens)
                /\ value = threshold + 1 =>
                       (PositiveToken(i) \in tokens /\ NegativeToken(i) \notin tokens)
                /\ value = 0 - (threshold + 1) =>
                       (NegativeToken(i) \in tokens /\ PositiveToken(i) \notin tokens)

\* A combination built with the left stick exactly at the threshold to the
\* left and the right stick one unit beyond it downwards.
C8_Witness ==
    /\ built.done
    /\ navigatorGamepads[0].axes[0] = 0 - monitor.axisActivationThreshold_
    /\ navigatorGamepads[0].axes[1] = AxisOne
    /\ "left_horizontal_left" \notin TokenSet(built.combination)
    /\ "left_vertical_down" \in TokenSet(built.combination)

\* C9: every combination the monitor builds from a raw controller state has,
\* for each of the 4 axes, at most one of the axis's two direction tokens.
C9_OneDirectionPerAxis ==
    built.done =>
        \A i \in AxisSlots :
            ~(/\ NegativeToken(i) \in TokenSet(built.combination)
              /\ PositiveToken(i) \in TokenSet(built.combination))

\* A combination built from axes deflected in both signs.
C9_Witness ==
    /\ built.done
    /\ \E i, j \in AxisSlots :
           /\ navigatorGamepads[0].axes[i] < 0
           /\ navigatorGamepads[0].axes[j] > 0
           /\ NegativeToken(i) \in TokenSet(built.combination)
           /\ PositiveToken(j) \in TokenSet(built.combination)

Ms(n) == n * TicksPerMs

\* C4 as stated: any two onActivate calls that returned true are at least
\* the debounce interval apart, and a tick more than the interval after the
\* last handled one dispatches.
C4_AsClaimed ==
    /\ lastTick.handledCount >= 2 =>
           lastTick.timestamp - lastTick.timestamp
               >= Ms(DEFAULT_DELAY_BETWEEN_COMBINATIONS_MILLISECONDS)
    /\ (lastTick.isHandled /\ lastTick.previous # << >>) =>
           lastTick.timestamp - lastTick.previous[1]
               >= Ms(DEFAULT_DELAY_BETWEEN_COMBINATIONS_MILLISECONDS)
    /\ (/\ lastTick.path \in { "debounced", "dispatched", "threw" }
        /\ lastTick.previous # << >>
        /\ lastTick.timestamp - lastTick.previous[1]
               > Ms(DEFAULT_DELAY_BETWEEN_COMBINATIONS_MILLISECONDS))
           => lastTick.path # "debounced"

\* C4 (amended): two handled ticks are at least the 200 ms interval apart,
\* whatever delay the monitor was built with, while the onActivate calls of
\* one tick (one per connected controller and tracked session) may return
\* true together; and a tick 201 ms or more after the last handled tick, with
\* a controller connected, dispatches to every controller and session.
C4_Debounce ==
    /\ (lastTick.isHandled /\ lastTick.previous # << >>) =>
           lastTick.timestamp - lastTick.previous[1]
               >= Ms(DEFAULT_DELAY_BETWEEN_COMBINATIONS_MILLISECONDS)
    /\ (/\ lastTick.path \in { "debounced", "dispatched", "threw" }
        /\ lastTick.previous # << >>
        /\ lastTick.timestamp - lastTick.previous[1]
               >= Ms(DEFAULT_DELAY_BETWEEN_COMBINATIONS_MILLISECONDS + 1))
           => /\ lastTick.path # "debounced"
              /\ lastTick.path = "dispatched" =>
                     lastTick.callCount = lastTick.pairCount

\* A handled tick after an earlier handled tick, in which two onActivate
\* calls returned true.
C4_Witness ==
    /\ lastTick.isHandled
    /\ lastTick.previous # << >>
    /\ lastTick.handledCount >= 2

\* The default shortcuts whose precondition is the accessibility flag alone.
AccessibilityGated ==
    { "previous", "next", "in", "out", "exit", "scroll_workspace_left",
      "scroll_workspace_right", "scroll_workspace_up", "scroll_workspace_down",
      "help" }

\* The default shortcuts whose precondition is the accessibility flag and
\* that the workspace is not read-only.
EditGated ==
    { "insert", "mark", "toolbox", "workspace_left", "workspace_right",
      "workspace_up", "workspace_down" }

\* C3: an onActivate call for a workspace whose accessibility flag is false
\* invokes no callback of a default shortcut other than toggle_gamepad_nav,
\* whatever the combination and the navigation state of the workspace; when
\* the flag is true (enabled again or for the first time) the flag skips no
\* shortcut: the precondition of a shortcut gated by the flag alone holds
\* and its callback is invoked, and the precondition of a shortcut gated by
\* the flag and the read-only option holds iff the workspace is not
\* read-only.
C3_AccessibilityGate ==
    lastCall.op = "onActivate" =>
        \A i \in 1..Len(lastCall.calls) :
            LET call == lastCall.calls[i]
            IN  /\ (~lastCall.enabled /\ call.kind = "cb")
                       => call.name = "toggle_gamepad_nav"
                /\ (lastCall.enabled /\ call.kind = "pre"
                        /\ call.name \in AccessibilityGated)
                       => /\ call.ret = "true"
                          /\ i < Len(lastCall.calls)
                          /\ lastCall.calls[i + 1].kind = "cb"
                          /\ lastCall.calls[i + 1].name = call.name
                /\ (lastCall.enabled /\ call.kind = "pre"
                        /\ call.name \in EditGated)
                       => (call.ret = "true"
                               <=> ~editor.options[lastCall.workspace].readOnly)

\* C3 witness: a combination was activated for a workspace while its flag was
\* false and a shortcut was skipped; the workspace was enabled; a combination
\* was activated for it again and the callback of a shortcut other than
\* toggle_gamepad_nav was invoked.
C3_Witness ==
    /\ lastCall.op = "onActivate"
    /\ lastCall.reenabled
    /\ lastCall.enabled
    /\ \E i \in 1..Len(lastCall.calls) :
           /\ lastCall.calls[i].kind = "cb"
           /\ lastCall.calls[i].name # "toggle_gamepad_nav"

\* C11: after unregister(name) returns true, name is no longer registered and
\* no entry of the combination map has name in its name set; unregister of a
\* name that is not registered returns false and changes nothing.
C11_Unregister ==
    [][ \A n \in RegistryNames :
          Unregister(n) =>
              /\ lastCall'.result = "true" =>
                     /\ n \notin DOMAIN registry_'
                     /\ \A e \in 1..Len(combinationMap_') :
                            n \notin Range(combinationMap_'[e].names)
              /\ n \notin DOMAIN registry_ =>
                     /\ lastCall'.result = "false"
                     /\ registry_' = registry_
                     /\ combinationMap_' = combinationMap_ ]_vars

\* C12 as stated: addCombinationMapping(c, name) with allowCollision false
\* fails only when c already maps to a name other than the given one, and
\* then leaves the map unchanged; in every other case it succeeds and
\* afterwards name is in the name set of c.
C12_AsClaimed ==
    [][ \A c \in RegistryCombinations, n \in RegistryNames, o \in BOOLEAN :
          AddCombinationMapping(c, n, o) =>
              IF ~o /\ \E m \in Range(BoundNames(c)) : m # n
              THEN /\ lastCall'.result = "throw"
                   /\ combinationMap_' = combinationMap_
              ELSE /\ lastCall'.result = "ok"
                   /\ n \in Range(NamesOfKey(combinationMap_', serialize(c))) ]_vars

\* C12 (amended): addCombinationMapping(c, name) with allowCollision false
\* fails exactly when the map already has an entry for c, whatever names the
\* entry holds (the given name alone, or none), and then leaves the map
\* unchanged; in every other case (no entry, or allowCollision true) it
\* succeeds and afterwards name is in the name set of c.
C12_AddCombinationMapping ==
    [][ \A c \in RegistryCombinations, n \in RegistryNames, o \in BOOLEAN :
          AddCombinationMapping(c, n, o) =>
              IF ~o /\ MapHas(combinationMap_, serialize(c))
              THEN /\ lastCall'.result = "throw"
                   /\ combinationMap_' = combinationMap_
              ELSE /\ lastCall'.result = "ok"
                   /\ n \in Range(NamesOfKey(combinationMap_', serialize(c))) ]_vars

\* C12 witness: addCombinationMapping failed for a combination whose entry
\* holds the given name and no other.
C12_Witness ==
    /\ lastCall.op = "addCombinationMapping"
    /\ lastCall.result = "throw"
    /\ BoundNames(lastCall.combination) = << lastCall.shortcutName >>

\* C13: removeCombinationMapping(c, name), when name is in the name set of c,
\* removes name from that set, returns true, deletes the entry of c when the
\* set becomes empty, and leaves every other entry unchanged; when name is
\* not mapped to c it returns false and changes nothing.
C13_RemoveCombinationMapping ==
    [][ \A c \in RegistryCombinations, n \in RegistryNames :
          RemoveCombinationMapping(c, n) =>
              LET key == serialize(c)
                  names == BoundNames(c)
                  others(map) == { map[e] : e \in { i \in 1..Len(map) :
                                                        map[i].key # key } }
              IN  IF n \in Range(names)
                  THEN /\ lastCall'.result = "true"
                       /\ Range(NamesOfKey(combinationMap_', key))
                              = Range(names) \ {n}
                       /\ Len(names) = 1 => ~MapHas(combinationMap_', key)
                       /\ others(combinationMap_') = others(combinationMap_)
                  ELSE /\ lastCall'.result = "false"
                       /\ combinationMap_' = combinationMap_ ]_vars

\* C14: what the caller does to the collection returned by getCombinationMap()
\* or getRegistry() (adding, removing or replacing entries or names) leaves
\* the registry's own collections as they are, and with them the result of
\* every later getShortcutNamesByCombination, getCombinationsByShortcutName
\* and onActivate call, which read nothing else of the registry.
C14_ReturnedCollections ==
    [][ lastCall'.op \in { "getCombinationMap", "getRegistry" } =>
          /\ registry_' = registry_
          /\ combinationMap_' = combinationMap_
          /\ \A c \in RegistryCombinations :
                 /\ getShortcutNamesByCombination(combinationMap_', c)
                        = getShortcutNamesByCombination(combinationMap_, c)
                 /\ \A oracle \in { [ n \in RegistryNames |->
                                         [ pre |-> TRUE, cb |-> r ] ] :
                                     r \in { "true", "false" } } :
                        onActivate(registry_', combinationMap_', NoWorld,
                                   "workspace", c, oracle)
                            = onActivate(registry_, combinationMap_, NoWorld,
                                         "workspace", c, oracle)
          /\ \A n \in RegistryNames :
                 getCombinationsByShortcutName(combinationMap_', n)
                     = getCombinationsByShortcutName(combinationMap_, n) ]_vars

\* C14 witness: the caller changed a collection it was given while the
\* registry holds a registered shortcut mapped to a combination.
C14_Witness ==
    /\ lastCall.op \in { "getCombinationMap", "getRegistry" }
    /\ lastCall.result = "mutated"
    /\ \E e \in 1..Len(combinationMap_) :
           \E k \in 1..Len(combinationMap_[e].names) :
               combinationMap_[e].names[k] \in DOMAIN registry_

-----------------------------------------------------------------------------
(* GamepadMonitor: errors, disposal, dispatch order, removeWorkspace.       *)

\* C15: an error raised while one session is dispatched does not escape the
\* tick: a tick in which an onActivate call raised has still dispatched every
\* (controller, session) pair and has requested its successor frame.
C15_ErrorContained ==
    lastTick.path = "threw" =>
        /\ lastTick.callCount = lastTick.pairCount
        /\ lastTick.requested = 1

\* C16: a tick that starts after dispose() was called, queued before the call
\* or requested by a later init(), calls onActivate for no session and
\* requests no frame; a tick that had started when dispose() was called from
\* one of its closures is not cut short by the call: it goes on through its
\* pairs and, when it reaches its end, requests its successor.
C16_Dispose ==
    [][ lastTick'.number = lastTick.number + 1 =>
            /\ monitor.disposed_ =>
                    /\ lastTick'.callCount = 0
                    /\ lastTick'.requested = 0
                    /\ frames' = frames - 1
                    /\ editor' = editor
            /\ ~monitor.disposed_ /\ monitor'.disposed_ =>
                    /\ lastTick'.path \in { "dispatched", "threw" }
                    /\ lastTick'.path = "dispatched" =>
                            /\ lastTick'.callCount = lastTick'.pairCount
                            /\ lastTick'.requested = 1
                            /\ frames' = frames ]_vars

\* The tick that was queued when dispose() was called has run: a controller
\* was connected and sessions were tracked, and the loop has ended.
C16_Witness ==
    /\ lastTick.disposed
    /\ lastTick.number = 2
    /\ lastTick.pairCount > 0
    /\ lastTick.previous # << >>
    /\ frames = 0

\* C17: a tick that gets past its gates calls onActivate once for every
\* (controller, session) pair, the sessions in the order of workspaces_ for
\* each controller, whatever the earlier calls returned, and the tick is
\* handled exactly when one of the calls returned true.
C17_EverySessionInOrder ==
    [][ /\ lastTick'.number = lastTick.number + 1
        /\ lastTick'.path \in { "dispatched", "threw" }
        => LET pairs == DispatchPairs(monitor, navigatorGamepads)
               calls == lastTick'.calls
           IN  /\ Len(calls) = Len(pairs)
               /\ \A k \in 1..Len(calls) :
                      /\ k <= Len(pairs)
                      /\ calls[k].gamepadIndex = pairs[k].gamepadIndex
                      /\ calls[k].workspace = pairs[k].workspace
               /\ lastTick'.isHandled
                      <=> \E k \in 1..Len(calls) : calls[k].result = "true"
               /\ lastTick'.isHandled
                      <=> monitor'.timeSinceLastCommandHandled_
                              = Num(MathFloor(lastTick'.timestamp)) ]_vars

\* C18: removeWorkspace(s) leaves workspaces_ as it is when s is not in it,
\* keeps the other sessions and their order, and a second removeWorkspace(s)
\* right after the first changes nothing more.
C18_RemoveWorkspace ==
    [][ \A s \in Workspaces :
            RemoveWorkspace(s) =>
                LET Other(w) == w # s
                IN  /\ s \notin Range(monitor.workspaces_) => monitor' = monitor
                    /\ SelectSeq(monitor'.workspaces_, Other)
                           = SelectSeq(monitor.workspaces_, Other)
                    /\ removeWorkspace(monitor', s) = monitor' ]_vars

-----------------------------------------------------------------------------
(* The navigation state machine.                                            *)

\* The rows of the transition table that change the state, <<from, shortcut,
\* to>>, for a workspace that has a toolbox or not.
TransitionRows(toolbox) ==
    { << STATES.WORKSPACE, "help", STATES.HELP >>,
      << STATES.WORKSPACE, "toolbox", STATES.TOOLBOX >>,
      << STATES.FLYOUT, "out", STATES.TOOLBOX >>,
      << STATES.TOOLBOX, "in", STATES.FLYOUT >>,
      << STATES.FLYOUT, "exit", STATES.WORKSPACE >>,
      << STATES.TOOLBOX, "exit", STATES.WORKSPACE >>,
      << STATES.HELP, "exit", STATES.WORKSPACE >>,
      << STATES.FLYOUT, "mark", STATES.WORKSPACE >> }
        \cup IF toolbox THEN { }
             ELSE { << STATES.WORKSPACE, "toolbox", STATES.FLYOUT >> }

\* C19: when an onActivate call changes the navigation state of a workspace,
\* the workspace is the one of the call, and the state before, the default
\* shortcut whose callback ran and the state after are a row of the
\* transition table.
C19_TransitionTable ==
    [][ \A w \in Workspaces :
            (lastCall'.op = "onActivate" /\ editor'.state[w] # editor.state[w])
                => /\ w = lastCall'.workspace
                   /\ \E i \in 1..Len(lastCall'.calls) :
                          /\ lastCall'.calls[i].kind = "cb"
                          /\ << editor.state[w], lastCall'.calls[i].name,
                                editor'.state[w] >>
                                 \in TransitionRows(editor.options[w].toolbox)
      ]_vars

\* C20: once the controller has registered the default shortcuts, for a
\* workspace with accessibility enabled: onActivate with {select} in state
\* WORKSPACE shows the help popup, sets the state to HELP and returns true;
\* onActivate with {circle} in state HELP hides the popup, sets the state to
\* WORKSPACE and returns true; onActivate with {circle} in state FLYOUT or
\* TOOLBOX sets the state to WORKSPACE and returns true.
C20_HelpAndExit ==
    [][ ( /\ lastCall'.op = "onActivate"
          /\ lastCall'.enabled
          /\ "help" \in DOMAIN registry_
          /\ "exit" \in DOMAIN registry_ )
        => LET w == lastCall'.workspace
               c == lastCall'.combination
           IN  /\ ( c = fromSingleButton("select")
                       /\ getState(editor, w) = STATES.WORKSPACE )
                   => /\ getState(editor', w) = STATES.HELP
                      /\ editor'.isVisible_
                      /\ lastCall'.result = "true"
               /\ ( c = fromSingleButton("circle")
                       /\ getState(editor, w) = STATES.HELP )
                   => /\ getState(editor', w) = STATES.WORKSPACE
                      /\ ~editor'.isVisible_
                      /\ lastCall'.result = "true"
               /\ ( c = fromSingleButton("circle")
                       /\ getState(editor, w) \in { STATES.FLYOUT, STATES.TOOLBOX } )
                   => /\ getState(editor', w) = STATES.WORKSPACE
                      /\ lastCall'.result = "true" ]_vars

\* {circle} was dispatched for an enabled workspace whose state was HELP,
\* with the popup on screen since a dispatch of {select}: the workspace is
\* back in WORKSPACE and the popup is hidden.
C20_Witness ==
    /\ lastCall.op = "onActivate"
    /\ lastCall.enabled
    /\ lastCall.combination = fromSingleButton("circle")
    /\ lastCall.state = STATES.HELP
    /\ lastCall.result = "true"
    /\ getState(editor, lastCall.workspace) = STATES.WORKSPACE
    /\ ~editor.isVisible_

\* An onActivate call for a workspace with accessibility enabled, made once
\* the controller has registered the default shortcuts.
Dispatched ==
    /\ lastCall'.op = "onActivate"
    /\ lastCall'.enabled
    /\ DOMAIN registry_ = { DefaultRegistrations[i].name :
                               i \in 1..Len(DefaultRegistrations) }

MovingCalls ==
    { "cursor.prev", "cursor.next", "cursor.in", "cursor.out",
      "flyoutCursor.prev", "flyoutCursor.next", "moveWSCursor", "scrollWS",
      "connectMarkerAndCursor", "handleEnterForWS", "disconnectBlocks",
      "insertFromFlyout", "paste", "moveCursorOnBlockDelete",
      "Blockly.deleteBlock" }

\* C22: an onActivate call for a workspace in state HELP that does not run
\* the callback of exit makes no call that moves a cursor, scrolls or changes
\* the blocks, and leaves the state HELP.
C22_HelpIsModal ==
    [][ ( /\ Dispatched
          /\ getState(editor, lastCall'.workspace) = STATES.HELP
          /\ \A i \in 1..Len(lastCall'.calls) :
                 ~( lastCall'.calls[i].kind = "cb"
                      /\ lastCall'.calls[i].name = "exit" ) )
        => /\ getState(editor', lastCall'.workspace) = STATES.HELP
           /\ \A k \in 1..Len(editor'.effects) :
                  editor'.effects[k].call \notin MovingCalls ]_vars

\* C23: once the default shortcuts are registered, onActivate with L1+R1 for
\* a workspace, in any navigation state and with the flag true or false,
\* returns true and flips the accessibility flag of that workspace; the
\* navigation state of every workspace, the flags of the other workspaces
\* and the help popup are as before.
C23_ToggleAccessibility ==
    [][ ( /\ lastCall'.op = "onActivate"
          /\ "toggle_gamepad_nav" \in DOMAIN registry_
          /\ lastCall'.combination = l1AndR1 )
        => /\ lastCall'.result = "true"
           /\ isGamepadAccessibilityEnabled(editor', lastCall'.workspace)
                  = ~isGamepadAccessibilityEnabled(editor, lastCall'.workspace)
           /\ \A w \in Workspaces \ { lastCall'.workspace } :
                  isGamepadAccessibilityEnabled(editor', w)
                      = isGamepadAccessibilityEnabled(editor, w)
           /\ editor'.state = editor.state
           /\ editor'.isVisible_ = editor.isVisible_
           /\ editor'.options = editor.options ]_vars

\* L1+R1 was dispatched for a workspace outside state WORKSPACE whose flag
\* was true: the flag is false now, and the other workspace is still
\* enabled.
C23_Witness ==
    /\ lastCall.op = "onActivate"
    /\ lastCall.combination = l1AndR1
    /\ lastCall.enabled
    /\ lastCall.result = "true"
    /\ lastCall.state \in { STATES.TOOLBOX, STATES.HELP }
    /\ getState(editor, lastCall.workspace) = lastCall.state
    /\ ~isGamepadAccessibilityEnabled(editor, lastCall.workspace)
    /\ \E w \in Workspaces \ { lastCall.workspace } :
           isGamepadAccessibilityEnabled(editor, w)

\* The cursor call of previous, next, in and out in state WORKSPACE.
CursorMove ==
    [ previous |-> "cursor.prev", next |-> "cursor.next", in |-> "cursor.in",
      out |-> "cursor.out" ]

\* C24: in state WORKSPACE onActivate with the combination of previous,
\* next, in or out returns true; with the cursor on a field the field is
\* offered the shortcut first and the cursor is moved exactly when the field
\* returned false, so that one of the two acts; with the cursor elsewhere
\* the field handler is not called and the cursor is moved.
C24_FieldFirst ==
    [][ \A name \in DOMAIN CursorMove :
            ( /\ Dispatched
              /\ lastCall'.combination = ControlsGet(DEFAULT_CONTROLS, name)
              /\ getState(editor, lastCall'.workspace) = STATES.WORKSPACE )
            => LET e == editor'.effects
                   move == [ call |-> CursorMove[name], ret |-> "" ]
               IN  /\ lastCall'.result = "true"
                   /\ getState(editor', lastCall'.workspace) = STATES.WORKSPACE
                   /\ Len(e) >= 1
                   /\ e[1].call = "getCurNode"
                   /\ e[1].ret = "field"
                          => /\ Len(e) >= 2
                             /\ e[2].call = "field.onShortcut"
                             /\ e[2].ret = "true" => e = << e[1], e[2] >>
                             /\ e[2].ret # "true" => e = << e[1], e[2], move >>
                   /\ e[1].ret # "field" => e = << e[1], move >> ]_vars

\* 'out' was dispatched in state WORKSPACE with the cursor on a field that
\* declined, and the cursor was moved.
C24_Witness ==
    /\ lastCall.op = "onActivate"
    /\ lastCall.enabled
    /\ lastCall.state = STATES.WORKSPACE
    /\ lastCall.combination = ControlsGet(DEFAULT_CONTROLS, "out")
    /\ lastCall.result = "true"
    /\ editor.effects = << [ call |-> "getCurNode", ret |-> "field" ],
                           [ call |-> "field.onShortcut", ret |-> "false" ],
                           [ call |-> "cursor.out", ret |-> "" ] >>

\* The calls of these names among the calls made, in order.
CallsAmong(effects, names) ==
    LET Named(e) == e.call \in names
        kept == SelectSeq(effects, Named)
    IN  [ k \in 1..Len(kept) |-> kept[k].call ]

\* C25: an onActivate call with the combination of delete or cut that
\* removes the block calls moveCursorOnBlockDelete once, then deleteBlock
\* once, and in cut Blockly.copy once before both; a delete whose callback
\* finds a gesture in progress calls neither and returns false.
C25_RelocateBeforeRemove ==
    [][ Dispatched
        => LET e == editor'.effects
               steps == CallsAmong(e, { "Blockly.copy", "moveCursorOnBlockDelete",
                                        "Blockly.deleteBlock" })
               refused == \E k \in 1..Len(e) :
                              e[k] = [ call |-> "Gesture.inProgress",
                                       ret |-> "true" ]
           IN  /\ lastCall'.combination
                      = ControlsGet(DEFAULT_CONTROLS, "gamepad_nav_delete")
                   => /\ steps \in { << >>, << "moveCursorOnBlockDelete",
                                                "Blockly.deleteBlock" >> }
                      /\ refused => steps = << >> /\ lastCall'.result = "false"
                      /\ lastCall'.result = "true" <=> steps # << >>
               /\ lastCall'.combination
                      = ControlsGet(DEFAULT_CONTROLS, "gamepad_nav_cut")
                   => /\ steps \in { << >>, << "Blockly.copy",
                                                "moveCursorOnBlockDelete",
                                                "Blockly.deleteBlock" >> }
                      /\ lastCall'.result = "true" <=> steps # << >> ]_vars

\* A cut removed the block: the copy, the relocation of the cursor and the
\* removal were called in this order.
C25_Witness ==
    /\ lastCall.op = "onActivate"
    /\ lastCall.enabled
    /\ lastCall.combination = ControlsGet(DEFAULT_CONTROLS, "gamepad_nav_cut")
    /\ lastCall.result = "true"
    /\ CallsAmong(editor.effects, { "Blockly.copy", "moveCursorOnBlockDelete",
                                    "Blockly.deleteBlock" })
           = << "Blockly.copy", "moveCursorOnBlockDelete", "Blockly.deleteBlock" >>

\* The nodes with a source block that is deletable, and those with one that
\* is movable.
DeletableNodes == NodeSample \ { "none", "locked", "undeletable" }

MovableNodes == NodeSample \ { "none", "locked", "immovable" }

\* The call copied or removed a block.
CopiedOrRemoved ==
    \E k \in 1..Len(editor'.effects) :
        editor'.effects[k].call \in { "Blockly.copy", "Blockly.deleteBlock" }

\* C26 as claimed: copy, cut and delete copy or remove a block only when the
\* cursor is on a node with a source block that is deletable and movable and
\* no gesture is in progress, cut only when moreover the block is not in a
\* flyout.
C26_AsClaimed ==
    [][ \A name \in { "gamepad_nav_copy", "gamepad_nav_cut", "gamepad_nav_delete" } :
            ( /\ Dispatched
              /\ lastCall'.combination = ControlsGet(DEFAULT_CONTROLS, name)
              /\ CopiedOrRemoved )
            => /\ lastCall'.node \in DeletableNodes \cap MovableNodes
               /\ ~lastCall'.gesture
               /\ name = "gamepad_nav_cut" => lastCall'.node # "inFlyout" ]_vars

\* C26: copy and cut copy or remove a block only when the cursor is on a
\* node with a source block that is deletable and movable and no gesture is
\* in progress, cut only when moreover the block is not in a flyout; delete
\* removes a block only when the cursor is on a node with a source block
\* that is deletable and no gesture is in progress.
C26_ClipboardGuards ==
    [][ \A name \in { "gamepad_nav_copy", "gamepad_nav_cut", "gamepad_nav_delete" } :
            ( /\ Dispatched
              /\ lastCall'.combination = ControlsGet(DEFAULT_CONTROLS, name)
              /\ CopiedOrRemoved )
            => /\ lastCall'.node \in DeletableNodes
               /\ name # "gamepad_nav_delete" => lastCall'.node \in MovableNodes
               /\ ~lastCall'.gesture
               /\ name = "gamepad_nav_cut" => lastCall'.node # "inFlyout" ]_vars

\* Delete removed a block that is deletable and not movable.
C26_Witness ==
    /\ lastCall.op = "onActivate"
    /\ lastCall.enabled
    /\ lastCall.combination = ControlsGet(DEFAULT_CONTROLS, "gamepad_nav_delete")
    /\ lastCall.node = "immovable"
    /\ lastCall.result = "true"
    /\ \E k \in 1..Len(editor.effects) :
           editor.effects[k].call = "Blockly.deleteBlock"

\* The places moveCursorOnBlockDelete put the cursor during the call.
Relocations ==
    LET Moved(e) == e.call = "moveCursorOnBlockDelete"
        kept == SelectSeq(editor'.effects, Moved)
    IN  [ k \in 1..Len(kept) |-> kept[k].ret ]

\* C27: after an onActivate call with the combination of delete or cut that
\* returned true, the cursor was put, once, on the next connection when the
\* removed block had a block below it, else on the parent when it had one,
\* else on the workspace; it was never left on the removed block.
C27_CursorAfterDelete ==
    [][ ( /\ Dispatched
          /\ lastCall'.combination
                 \in { ControlsGet(DEFAULT_CONTROLS, "gamepad_nav_delete"),
                       ControlsGet(DEFAULT_CONTROLS, "gamepad_nav_cut") }
          /\ lastCall'.result = "true" )
        => /\ Len(Relocations) = 1
           /\ Relocations[1] \in { "next", "parent", "workspace" }
           /\ Relocations[1] = "next" <=> lastCall'.node = "stacked"
           /\ Relocations[1] = "parent" <=> lastCall'.node = "child" ]_vars

\* Delete removed a block with a block below it, and the cursor was put on
\* the next connection first.
C27_Witness ==
    /\ lastCall.op = "onActivate"
    /\ lastCall.enabled
    /\ lastCall.combination = ControlsGet(DEFAULT_CONTROLS, "gamepad_nav_delete")
    /\ lastCall.node = "stacked"
    /\ lastCall.result = "true"
    /\ editor.effects[Len(editor.effects) - 1]
           = [ call |-> "moveCursorOnBlockDelete", ret |-> "next" ]

\* The shortcuts that change the blocks or the place of the workspace cursor.
MutatingNames ==
    { "insert", "mark", "disconnect", "gamepad_nav_cut", "gamepad_nav_delete",
      "gamepad_nav_paste", "workspace_left", "workspace_right", "workspace_up",
      "workspace_down" }

\* An onActivate call for a read-only workspace with accessibility enabled.
ReadOnlyDispatched ==
    /\ Dispatched
    /\ editor.options[lastCall'.workspace].readOnly

\* The call ran the callback of none of the mutating shortcuts.
NoMutatingCallback ==
    \A k \in 1..Len(lastCall'.calls) :
        lastCall'.calls[k].kind = "cb" => lastCall'.calls[k].name \notin MutatingNames

\* The call was handed the combination of one of these shortcuts.
CombinationOf(names) ==
    \E name \in names :
        lastCall'.combination = ControlsGet(DEFAULT_CONTROLS, name)

\* C28 as claimed: in a read-only workspace with accessibility enabled
\* onActivate runs the callback of none of insert, mark, disconnect, cut,
\* delete, paste and the workspace cursor moves, returns false for their
\* combinations and returns true for those of previous, next, in and out.
C28_AsClaimed ==
    [][ ReadOnlyDispatched
        => /\ NoMutatingCallback
           /\ CombinationOf(MutatingNames) => lastCall'.result = "false"
           /\ CombinationOf({ "previous", "next", "in", "out" })
                  => lastCall'.result = "true" ]_vars

\* C28: in a read-only workspace with accessibility enabled onActivate runs
\* the callback of none of insert, mark, disconnect, cut, delete, paste and
\* the workspace cursor moves; in navigation state WORKSPACE it returns
\* false for their combinations and true for those of previous, next, in
\* and out.
C28_ReadOnly ==
    [][ ReadOnlyDispatched
        => /\ NoMutatingCallback
           /\ lastCall'.state = STATES.WORKSPACE
                  => /\ CombinationOf(MutatingNames) => lastCall'.result = "false"
                     /\ CombinationOf({ "previous", "next", "in", "out" })
                            => lastCall'.result = "true" ]_vars

\* Delete was refused in a read-only workspace with the cursor on a block
\* that can be deleted.
C28_Witness ==
    /\ lastCall.op = "onActivate"
    /\ lastCall.enabled
    /\ editor.options[lastCall.workspace].readOnly
    /\ lastCall.state = STATES.WORKSPACE
    /\ lastCall.combination = ControlsGet(DEFAULT_CONTROLS, "gamepad_nav_delete")
    /\ lastCall.node = "block"
    /\ ~lastCall.gesture
    /\ lastCall.result = "false"
    /\ lastCall.calls = << [ kind |-> "pre", name |-> "gamepad_nav_delete",
                             ret |-> "false" ] >>

\* What the connect of marker and cursor returned during the call, if it
\* was attempted.
ConnectResults ==
    { editor'.effects[k].ret :
        k \in { j \in 1..Len(editor'.effects) :
                   editor'.effects[j].call = "connectMarkerAndCursor" } }

\* The monitor after a frame in which this onActivate call is the only one
\* made.
FrameOfCall ==
    LET pair == [ gamepadIndex |-> 0, workspace |-> lastCall'.workspace,
                  combination |-> lastCall'.combination ]
        r == [ result |-> lastCall'.result, world |-> editor',
               calls |-> lastCall'.calls ]
    IN  AfterDispatch(monitor, now,
            DispatchStep(registry_, combinationMap_, << pair >>, << >>, 1,
                         FALSE, << >>, pair, r))

\* C29: an onActivate call with the combination of insert that attempts the
\* connect of marker and cursor returns what the connect returned; when the
\* connect returned false the call returns false, the navigation state of
\* every workspace is as before, and a frame whose only dispatch is this
\* call is not handled and leaves timeSinceLastCommandHandled_ as it is.
C29_RejectedConnect ==
    [][ ( /\ Dispatched
          /\ lastCall'.combination = ControlsGet(DEFAULT_CONTROLS, "insert")
          /\ ConnectResults # { } )
        => /\ ConnectResults = { lastCall'.result }
           /\ "false" \in ConnectResults
                  => /\ lastCall'.result = "false"
                     /\ editor'.state = editor.state
                     /\ ~FrameOfCall.isHandled
                     /\ FrameOfCall.monitor = monitor ]_vars

\* The connect was attempted and rejected, and onActivate returned false.
C29_Witness ==
    /\ lastCall.op = "onActivate"
    /\ lastCall.enabled
    /\ lastCall.combination = ControlsGet(DEFAULT_CONTROLS, "insert")
    /\ lastCall.state = STATES.WORKSPACE
    /\ lastCall.result = "false"
    /\ editor.effects = << [ call |-> "connectMarkerAndCursor", ret |-> "false" ] >>

\* The names an onActivate call evaluated something for, in order.
NamesTried(calls) ==
    LET First(k) == k = 1 \/ calls[k - 1].name # calls[k].name
        Pick[k \in 0..Len(calls)] ==
            IF k = 0 THEN << >>
            ELSE IF First(k) THEN Append(Pick[k - 1], calls[k].name)
            ELSE Pick[k - 1]
    IN  Pick[Len(calls)]

\* The call ended in a callback that returned true or raised an error.
EndedBy(calls, rets) ==
    /\ calls # << >>
    /\ calls[Len(calls)].kind = "cb"
    /\ calls[Len(calls)].ret \in rets

\* C30: an onActivate call goes through the names of the combination in
\* order until a callback returns true or raises an error; a name that is
\* not registered is passed over with a warning, the names after it are
\* tried like any other, an error comes from a callback only, and the
\* registry and the combination map are as before.
C30_StaleNameSkipped ==
    [][ ( /\ lastCall'.op = "onActivate"
          /\ ~isEmpty(lastCall'.combination) )
        => LET names == getShortcutNamesByCombination(combinationMap_,
                                                      lastCall'.combination)
               calls == lastCall'.calls
               Evaluated(n) ==
                   \/ n \notin DOMAIN registry_
                   \/ registry_[n].preconditionFn # "absent"
                   \/ registry_[n].callback # "absent"
               expected == SelectSeq(names, Evaluated)
               tried == NamesTried(calls)
           IN  /\ registry_' = registry_
               /\ combinationMap_' = combinationMap_
               /\ \A k \in 1..Len(calls) :
                      calls[k].kind = "warn" <=> calls[k].name \notin DOMAIN registry_
               /\ Len(tried) <= Len(expected)
               /\ tried = SubSeq(expected, 1, Len(tried))
               /\ ~EndedBy(calls, { "true", "throw" }) => tried = expected
               /\ lastCall'.result = "throw" <=> EndedBy(calls, { "throw" })
               /\ lastCall'.result = "true" <=> EndedBy(calls, { "true" }) ]_vars

\* A name that is not registered was passed over and the callback of the
\* name after it returned true.
C30_Witness ==
    /\ lastCall.op = "onActivate"
    /\ lastCall.result = "true"
    /\ Len(lastCall.calls) >= 2
    /\ lastCall.calls[1].kind = "warn"
    /\ lastCall.calls[1].name \notin DOMAIN registry_
    /\ lastCall.calls[Len(lastCall.calls)].kind = "cb"
    /\ lastCall.calls[Len(lastCall.calls)].name \in DOMAIN registry_

\* The last tick was one of a monitor that was not disposed and had a
\* controller connected.
Sampled == lastTick.path \in { "debounced", "dispatched", "threw" }

\* The whole milliseconds between the last tick and the handled tick before
\* it, as the tick computes them.
ElapsedMs == MathFloor(lastTick.timestamp) - MathFloor(lastTick.previous[1])

\* C31 as claimed: a tick of a monitor that is not disposed and has a
\* controller connected skips the dispatch exactly when a tick was handled
\* before it and less than 200 ms have elapsed since; at 200 ms it
\* dispatches.
C31_AsClaimed ==
    Sampled
        => ( lastTick.path = "debounced"
               <=> /\ lastTick.previous # << >>
                   /\ ElapsedMs < DEFAULT_DELAY_BETWEEN_COMBINATIONS_MILLISECONDS )

\* C31: a tick of a monitor that is not disposed and has a controller
\* connected skips the dispatch exactly when a tick was handled before it
\* and at most 200 whole milliseconds have elapsed since; at 200 ms it is
\* skipped, at 201 ms it dispatches.
C31_DebounceBoundary ==
    Sampled
        => ( lastTick.path = "debounced"
               <=> /\ lastTick.previous # << >>
                   /\ ElapsedMs <= DEFAULT_DELAY_BETWEEN_COMBINATIONS_MILLISECONDS )

\* A tick exactly 200 ms after the handled tick before it was skipped.
C31_Witness ==
    /\ lastTick.path = "debounced"
    /\ lastTick.previous # << >>
    /\ ElapsedMs = DEFAULT_DELAY_BETWEEN_COMBINATIONS_MILLISECONDS

\* C32: for a monitor built with a delay, a tick of the monitor (not
\* disposed, a controller connected, a tick handled before it) skips the
\* dispatch when less than that delay has elapsed since the handled tick
\* and dispatches when more has.
C32_ConstructorDelay ==
    ( Sampled /\ lastTick.previous # << >> )
        => /\ ElapsedMs < monitor.delayBetweenCombinations_
                  => lastTick.path = "debounced"
           /\ ElapsedMs > monitor.delayBetweenCombinations_
                  => lastTick.path # "debounced"

\* C33: timeSinceLastCommandHandled_ changes only in a tick in which an
\* onActivate call returned true, and in such a tick it becomes the
\* timestamp of the tick in whole milliseconds; a tick that finds the
\* monitor disposed or no controller connected, that is debounced, or whose
\* calls all return false leaves it as it was, and no other method of the
\* monitor changes it.
C33_LastHandled ==
    [][ LET before == monitor.timeSinceLastCommandHandled_
            after == monitor'.timeSinceLastCommandHandled_
            ticked == lastTick'.number = lastTick.number + 1
        IN  /\ ~ticked => after = before
            /\ ticked =>
                  /\ after # before => lastTick'.handledCount >= 1
                  /\ ( \/ lastTick'.path \in { "disposed", "idle", "debounced" }
                       \/ lastTick'.handledCount = 0 )
                         => after = before
                  /\ lastTick'.handledCount >= 1
                         => after = Num(MathFloor(lastTick'.timestamp)) ]_vars

\* C34: a tick of a monitor that is not disposed requests exactly one
\* animation frame, which is then the only one pending, and while the
\* monitor is not disposed at most one frame is pending.
C34_OneSuccessor ==
    [][ /\ ( lastTick'.number = lastTick.number + 1 /\ ~lastTick'.disposed )
               => /\ lastTick'.requested = 1
                  /\ frames' = 1
        /\ ~monitor'.disposed_ => frames' <= 1 ]_vars

\* The call disconnected the blocks at the cursor.
Disconnected ==
    \E k \in 1..Len(editor'.effects) : editor'.effects[k].call = "disconnectBlocks"

\* The call left the flyout, the toolbox or the help popup for the workspace.
Exited ==
    \E k \in 1..Len(lastCall'.calls) :
        lastCall'.calls[k] = [ kind |-> "cb", name |-> "exit", ret |-> "true" ]

\* C35: with the default controls and accessibility enabled, an onActivate
\* call with {circle} never both disconnects and exits: in state WORKSPACE
\* of a workspace that is not read-only it disconnects and does not exit, in
\* state FLYOUT, TOOLBOX or HELP it exits to WORKSPACE and does not
\* disconnect.
C35_DisconnectOrExit ==
    [][ ( /\ Dispatched
          /\ lastCall'.combination = fromSingleButton("circle") )
        => LET workspace == lastCall'.workspace
               readOnly == editor.options[workspace].readOnly
           IN  /\ ~(Disconnected /\ Exited)
               /\ ( lastCall'.state = STATES.WORKSPACE /\ ~readOnly )
                      => /\ Disconnected
                         /\ ~Exited
                         /\ editor'.state = editor.state
               /\ lastCall'.state \in { STATES.FLYOUT, STATES.TOOLBOX, STATES.HELP }
                      => /\ Exited
                         /\ ~Disconnected
                         /\ getState(editor', workspace) = STATES.WORKSPACE ]_vars

\* {circle} in state FLYOUT: the precondition of disconnect failed and the
\* callback of exit focused the workspace.
C35_Witness ==
    /\ lastCall.op = "onActivate"
    /\ lastCall.enabled
    /\ lastCall.combination = fromSingleButton("circle")
    /\ lastCall.state = STATES.FLYOUT
    /\ lastCall.calls = << [ kind |-> "pre", name |-> "disconnect", ret |-> "false" ],
                           [ kind |-> "pre", name |-> "exit", ret |-> "true" ],
                           [ kind |-> "cb", name |-> "exit", ret |-> "true" ] >>
    /\ editor.effects = << >>
    /\ getState(editor, lastCall.workspace) = STATES.WORKSPACE

\* The combination holds at most one direction of each axis.
OneDirectionPerAxis(c) ==
    \A i \in AxisSlots :
        ~( NegativeToken(i) \in TokenSet(c) /\ PositiveToken(i) \in TokenSet(c) )

\* C36: for a combination c with at most one direction of each axis, the
\* object c.asGamepad() has exactly the button slots of c's buttons pressed,
\* the axis slot of a direction of c at -1.0 (left, up) or 1.0 (right, down)
\* and no other axis slot at either, and the combination the monitor reads
\* from it with the default threshold has the serialization of c.
C36_StubRoundTrip ==
    ( OneDirectionPerAxis(combA) /\ navigatorGamepads[0] # Neutral )
        => LET gamepad == navigatorGamepads[0]
           IN  /\ \A k \in 1..Len(GamepadButtonType) :
                      gamepad.buttons[k - 1].pressed
                          <=> GamepadButtonType[k] \in TokenSet(combA)
               /\ \A i \in AxisSlots :
                      /\ gamepad.axes[i] = 0 - AxisOne
                             <=> NegativeToken(i) \in TokenSet(combA)
                      /\ gamepad.axes[i] = AxisOne
                             <=> PositiveToken(i) \in TokenSet(combA)
               /\ built.done
                      => serialize(built.combination) = serialize(combA)

\* A combination of a button and a direction of each of two axes, put in
\* out of the order of the slots, was read back from its Gamepad object.
C36_Witness ==
    /\ combA = << "right_vertical_down", "right", "left_horizontal_left" >>
    /\ navigatorGamepads[0] # Neutral
    /\ built.done
    /\ built.combination
           = << "right", "left_horizontal_left", "right_vertical_down" >>

\* C37: when removeWorkspace(w) has returned w is not in workspaces_, a tick
\* calls onActivate with the workspaces of workspaces_ only, and with none
\* of them more than once for one controller.
C37_Untracked ==
    [][ /\ \A w \in Workspaces :
               RemoveWorkspace(w) => w \notin Range(monitor'.workspaces_)
        /\ lastTick'.number = lastTick.number + 1
               => LET calls == lastTick'.calls
                  IN  \A k \in 1..Len(calls) :
                          /\ calls[k].workspace \in Range(monitor.workspaces_)
                          /\ \A j \in 1..(k - 1) :
                                 ~( /\ calls[j].gamepadIndex = calls[k].gamepadIndex
                                    /\ calls[j].workspace = calls[k].workspace ) ]_vars

\* C38: the help popup, shared by the workspaces, is visible exactly when
\* the navigation state of some workspace is HELP.
C38_PopupIffHelp ==
    editor.isVisible_
        <=> \E workspace \in Workspaces : getState(editor, workspace) = STATES.HELP

\* C39: after NavigationController.dispose() the registry holds no default
\* shortcut and no combination mapping, so that registerDefaults on the same
\* registry succeeds again without a collision or an already-registered error.
C39_DisposeClearsRegistry ==
    lastCall.op = "dispose" /\ lastCall.result = "ok" =>
        /\ registry_ = << >>
        /\ combinationMap_ = << >>
        /\ ~registerDefaults(DEFAULT_CONTROLS, registry_, combinationMap_).threw

\* The calls of the last onActivate call that ran the callback of a shortcut
\* to its end.
CallbacksRun ==
    { i \in 1..Len(lastCall.calls) :
          lastCall.calls[i].kind = "cb" /\ lastCall.calls[i].ret # "throw" }

\* A callback left an effect in the editor other than reading the cursor or
\* the gesture and other than a delegate that reported it did nothing.
Performed ==
    \E k \in 1..Len(editor.effects) :
        /\ editor.effects[k].call \notin { "getCurNode", "Gesture.inProgress" }
        /\ editor.effects[k].ret # "false"

\* C40: when the callback of copy runs in a dispatch of its combination, the
\* copy is made and onActivate returns true; and whenever a callback of the
\* default shortcuts has performed its effect, onActivate returns true.
C40_CopyHandled ==
    lastCall.op = "onActivate" /\ CallbacksRun # { } =>
        /\ (\E i \in CallbacksRun : lastCall.calls[i].name = "gamepad_nav_copy")
               => /\ \E k \in 1..Len(editor.effects) :
                         editor.effects[k].call = "Blockly.copy"
                  /\ lastCall.result = "true"
        /\ Performed => lastCall.result = "true"

====
